---- MODULE Spec2Model ----
(***************************************************************************)
(* Money-muling detection core of chittydevs/mulermoney: the analysis      *)
(* pipeline analyzeTransactions (src/src/lib/analyzer.ts), the transaction *)
(* graph (src/src/lib/graph-engine.ts), the detectors and the scoring      *)
(* engine.  The repository holds two detection engines and two scoring     *)
(* engines; `build` says which pair a run is linked against:               *)
(*   "v1"  src/src/lib/detection-engine.ts + src/src/lib/scoring-engine.ts *)
(*   "v2"  src/unnamed/part_003 + src/src/lib/analyzer.ts:319-364          *)
(* Scores are kept in tenths (400 is 40.0); timestamps are milliseconds    *)
(* counted from a common 13-digit epoch instant.                           *)
(***************************************************************************)
EXTENDS Integers, Sequences, FiniteSets, TLC

VARIABLES
  build,        \* which detection/scoring engine pair is linked
  input,        \* the transaction sequence handed to analyzeTransactions
  ringCounter,  \* module-level `let ringCounter` of the detection engine
  pc,           \* pc[c]: position of call c of analyzeTransactions
  graph,        \* graph[c]: the TransactionGraph of call c
  cycleRings,   \* cycleRings[c], smurfRings[c], shellRings[c]: detector results
  smurfRings,
  shellRings,
  progress,     \* progress[c]: the percents passed to onProgress, in order
  stages,       \* stages[c]: the pipeline stages call c has executed, in order
  report,       \* report[c]: the DetectionResult returned by call c
  mergeVariant, \* which mergeOverlappingRings of analyzer.ts is called
  mergeIn,      \* the rings collected for a call of mergeOverlappingRings
  mergeOut,     \* what that call returned
  mergePc       \* "collect" while rings are collected, "done" after the call

mergeVars == <<mergeVariant, mergeIn, mergeOut, mergePc>>

pipelineVars == <<build, input, ringCounter, pc, graph, cycleRings, smurfRings,
                  shellRings, progress, stages, report>>

vars == <<pipelineVars, mergeVars>>

-----------------------------------------------------------------------------
(* Bounds of the model *)

\* longest transaction sequence of the exhaustive input family
MaxTx == 3
\* number of analyzeTransactions calls made one after another in one process
MaxRuns == 2

Calls == 1..MaxRuns

-----------------------------------------------------------------------------
(* Program constants *)

HourMs == 1000 * 60 * 60
WINDOW_MS == 72 * 60 * 60 * 1000
THRESHOLD == 10
LegitCutoff == 100
CycleMaxLen == 5
ShellMinHops == 3
ShellMaxLen == 6

-----------------------------------------------------------------------------
(* Generic helpers *)

EmptyFn == [x \in {} |-> x]

Put(f, k, v) == (k :> v) @@ f

Min2(a, b) == IF a < b THEN a ELSE b
Max2(a, b) == IF a > b THEN a ELSE b

Range(s) == {s[i] : i \in DOMAIN s}

\* the sum of s[lo..hi]; the halving keeps the evaluation shallow on the long
\* transaction lists of a busy account
RECURSIVE SumRange(_, _, _)
SumRange(s, lo, hi) ==
  IF lo > hi THEN 0
  ELSE IF lo = hi THEN s[lo]
       ELSE LET mid == (lo + hi) \div 2
            IN SumRange(s, lo, mid) + SumRange(s, mid + 1, hi)

SeqSum(s) == SumRange(s, 1, Len(s))

\* Array.prototype.sort ordering the elements by ascending key, key[i] being
\* the key of s[i]: stable, so s[i] lands after every element whose key is
\* smaller, or whose key is equal and that stands before it
StableSort(s, key) ==
  LET pos == [i \in DOMAIN s |->
                1 + Cardinality({j \in DOMAIN s :
                                   \/ key[j] < key[i]
                                   \/ (key[j] = key[i] /\ j < i)})]
  IN [p \in DOMAIN s |-> s[CHOOSE i \in DOMAIN s : pos[i] = p]]

Contains(s, x) == \E i \in DOMAIN s : s[i] = x

\* y, evaluated once x has its value.  TLC computes an operator argument when
\* it is first read; the loops below hand their accumulators over evaluated,
\* iteration by iteration, as the program does.
Strict(x, y) == IF x = x THEN y ELSE y

\* insertion-ordered Set.add / new Set(array)
SetAdd(s, x) == IF Contains(s, x) THEN s ELSE Append(s, x)

\* [...new Set(s)]: the first occurrences, in order
Dedup(s) ==
  LET first == {i \in DOMAIN s : \A j \in 1..(i - 1) : s[j] # s[i]}
  IN [k \in 1..Cardinality(first) |->
        s[CHOOSE i \in first : Cardinality({j \in first : j < i}) = k - 1]]

\* Account ids in ascending UTF-16 code unit order, the order of Array.sort()
AccountIds == <<"A", "B", "C", "D", "E", "F", "G", "H", "I", "J", "K", "L">>

\* the account ids of the inputs in the order of Array.sort(), by UTF-16
\* code units
IdOrder ==
  <<"A", "A->B", "B", "B->C", "C", "D", "E", "F", "G", "H", "I", "J", "K", "L">>

Rank(a) == CHOOSE i \in DOMAIN IdOrder : IdOrder[i] = a

\* [...ids].sort(): ascending, duplicates kept
SortIds(s) == StableSort(s, [i \in DOMAIN s |-> Rank(s[i])])

IsSortedIds(s) == \A i \in 1..(Len(s) - 1) : Rank(s[i]) <= Rank(s[i + 1])
NoDupSeq(s) == \A i, j \in DOMAIN s : i # j => s[i] # s[j]

\* numbers.sort((a, b) => a - b), also Array.sort() on 13-digit timestamps
SortNums(s) == StableSort(s, s)

-----------------------------------------------------------------------------
(* TransactionGraph *)

NewNode == [inDegree |-> 0, outDegree |-> 0, totalIn |-> 0, totalOut |-> 0,
            transactions |-> <<>>, isSuspicious |-> FALSE, suspicionScore |-> 0,
            detectedPatterns |-> <<>>, ringIds |-> <<>>]

\* a graph that holds a node before any transaction is read
SeededGraph == [nodeIds |-> <<"A">>, nodes |-> Put(EmptyFn, "A", NewNode),
                edgeKeys |-> <<>>, edges |-> EmptyFn, adjacency |-> EmptyFn,
                reverseAdjacency |-> EmptyFn]

EmptyGraph == [nodeIds |-> <<>>, nodes |-> EmptyFn, edgeKeys |-> <<>>,
               edges |-> EmptyFn, adjacency |-> EmptyFn,
               reverseAdjacency |-> EmptyFn]

\* `${tx.sender_id}->${tx.receiver_id}`
EdgeKey(a, b) == a \o "->" \o b

ensureNode(g, id) ==
  IF id \in DOMAIN g.nodes THEN g
  ELSE [g EXCEPT !.nodeIds = Append(@, id), !.nodes = Put(@, id, NewNode)]

\* one iteration of the loop of TransactionGraph.build
AddTx(g, tx) ==
  LET g1 == ensureNode(ensureNode(g, tx.sender_id), tx.receiver_id)
      n1 == [g1.nodes EXCEPT ![tx.sender_id] =
               [@ EXCEPT !.outDegree = @ + 1, !.totalOut = @ + tx.amount,
                         !.transactions = Append(@, tx)]]
      n2 == [n1 EXCEPT ![tx.receiver_id] =
               [@ EXCEPT !.inDegree = @ + 1, !.totalIn = @ + tx.amount,
                         !.transactions = Append(@, tx)]]
      key == EdgeKey(tx.sender_id, tx.receiver_id)
      has == key \in DOMAIN g1.edges
      e0 == IF has THEN g1.edges[key]
            ELSE [source |-> tx.sender_id, target |-> tx.receiver_id,
                  transactions |-> <<>>, totalAmount |-> 0, count |-> 0]
      e1 == [e0 EXCEPT !.transactions = Append(@, tx),
                       !.totalAmount = @ + tx.amount, !.count = @ + 1]
      a0 == IF tx.sender_id \in DOMAIN g1.adjacency
            THEN g1.adjacency[tx.sender_id] ELSE <<>>
      r0 == IF tx.receiver_id \in DOMAIN g1.reverseAdjacency
            THEN g1.reverseAdjacency[tx.receiver_id] ELSE <<>>
  IN [nodeIds |-> g1.nodeIds,
      nodes |-> n2,
      edgeKeys |-> IF has THEN g1.edgeKeys ELSE Append(g1.edgeKeys, key),
      edges |-> Put(g1.edges, key, e1),
      adjacency |-> Put(g1.adjacency, tx.sender_id, SetAdd(a0, tx.receiver_id)),
      reverseAdjacency |->
        Put(g1.reverseAdjacency, tx.receiver_id, SetAdd(r0, tx.sender_id))]

\* the loop of build over txs[lo..hi], in input order, starting from g; the
\* halving keeps the evaluation shallow on long inputs
RECURSIVE BuildFrom(_, _, _, _)
BuildFrom(g, txs, lo, hi) ==
  IF lo > hi THEN g
  ELSE IF lo = hi THEN AddTx(g, txs[lo])
       ELSE LET mid == (lo + hi) \div 2
                g1 == BuildFrom(g, txs, lo, mid)
            IN Strict(g1, BuildFrom(g1, txs, mid + 1, hi))

\* new TransactionGraph(transactions)
BuildGraph(txs) == BuildFrom(EmptyGraph, txs, 1, Len(txs))

getNeighbors(g, id) ==
  IF id \in DOMAIN g.adjacency THEN g.adjacency[id] ELSE <<>>

getIncoming(g, id) ==
  IF id \in DOMAIN g.reverseAdjacency THEN g.reverseAdjacency[id] ELSE <<>>

getTotalTransactions(g, id) ==
  IF id \in DOMAIN g.nodes
  THEN g.nodes[id].inDegree + g.nodes[id].outDegree ELSE 0

HasEdge(g, a, b) == EdgeKey(a, b) \in DOMAIN g.edges

\* a marking that leaves the ring id out of node.ringIds
MarkNodeNoRing(g, id, pattern, ringId) ==
  [g EXCEPT !.nodes[id] =
     [@ EXCEPT !.isSuspicious = TRUE,
               !.detectedPatterns = Append(@, pattern)]]

\* a marking that also counts the ring as a received transaction
MarkNodeCounting(g, id, pattern, ringId) ==
  [g EXCEPT !.nodes[id] =
     [@ EXCEPT !.isSuspicious = TRUE,
               !.inDegree = @ + 1,
               !.detectedPatterns = Append(@, pattern),
               !.ringIds = Append(@, ringId)]]

\* a marking that records pattern and ring and leaves the flag alone
MarkNodeUnflagged(g, id, pattern, ringId) ==
  [g EXCEPT !.nodes[id] =
     [@ EXCEPT !.detectedPatterns = Append(@, pattern),
               !.ringIds = Append(@, ringId)]]

\* node.isSuspicious = true; node.detectedPatterns.push(p); node.ringIds.push(id)
MarkNode(g, id, pattern, ringId) ==
  [g EXCEPT !.nodes[id] =
     [@ EXCEPT !.isSuspicious = TRUE,
               !.detectedPatterns = Append(@, pattern),
               !.ringIds = Append(@, ringId)]]

RECURSIVE MarkNodes(_, _, _, _)
MarkNodes(g, ids, pattern, ringId) ==
  IF ids = <<>> THEN g
  ELSE LET g1 == MarkNode(g, Head(ids), pattern, ringId)
       IN Strict(g1, MarkNodes(g1, Tail(ids), pattern, ringId))

-----------------------------------------------------------------------------
(* Ring ids *)

\* String(n).padStart(3, '0')
PadStart3(n) ==
  IF n < 10 THEN "00" \o ToString(n)
  ELSE IF n < 100 THEN "0" \o ToString(n) ELSE ToString(n)

\* the id nextRingId returns once it has raised the counter to n
RingIdOf(n) == "RING_" \o PadStart3(n)

-----------------------------------------------------------------------------
(* Fraud rings.  A detector result is [rings, graph, counter]: the rings it *)
(* returns, the graph with the node marks it wrote, and ringCounter after.  *)

Ring(id, members, pattern, risk) ==
  [ring_id |-> id, member_accounts |-> members, pattern_type |-> pattern,
   risk_score |-> risk]

CyclePattern(k) == "cycle_length_" \o ToString(k)

\* sum of edge.count over the consecutive pairs of `cycle` (wrapping) that are edges
RECURSIVE CycleTxCount(_, _, _)
CycleTxCount(g, cycle, i) ==
  IF i > Len(cycle) THEN 0
  ELSE LET from == cycle[i]
           to == cycle[(i % Len(cycle)) + 1]
       IN (IF HasEdge(g, from, to) THEN g.edges[EdgeKey(from, to)].count ELSE 0)
          + CycleTxCount(g, cycle, i + 1)

-----------------------------------------------------------------------------
(* Cycle detection, src/unnamed/part_003 *)

\* a closing test that takes any return to the start node for a cycle
ClosesWalk(neighbor, startNode, newPath) == neighbor = startNode

\* neighbor === startNode && newPath.length >= 3
ClosesCycle(neighbor, startNode, newPath) ==
  neighbor = startNode /\ Len(newPath) >= 3

\* the for-loop over graph.getNeighbors(current) of one popped stack entry,
\* for the neighbors nbrs[lo..hi]; st = [stack, cycles].  The halving keeps
\* the evaluation shallow.
RECURSIVE CycleExpand(_, _, _, _, _, _, _)
CycleExpand(startNode, nbrs, newPath, newVisited, st, lo, hi) ==
  IF lo > hi THEN st
  ELSE IF lo = hi
       THEN LET neighbor == nbrs[lo]
            IN IF ClosesCycle(neighbor, startNode, newPath)
               THEN [st EXCEPT !.cycles = Append(@, newPath)]
               ELSE IF neighbor \notin newVisited /\ Len(newPath) < CycleMaxLen
                    THEN [st EXCEPT !.stack =
                            Append(@, [current |-> neighbor, path |-> newPath,
                                       visited |-> newVisited])]
                    ELSE st
       ELSE LET mid == (lo + hi) \div 2
                st1 == CycleExpand(startNode, nbrs, newPath, newVisited, st, lo, mid)
            IN Strict(st1, CycleExpand(startNode, nbrs, newPath, newVisited, st1,
                                       mid + 1, hi))

\* the body of while (stack.length > 0) { ... } of the iterative DFS
CycleStep(g, startNode, st) ==
  LET top == st.stack[Len(st.stack)]
      popped == [st EXCEPT !.stack = SubSeq(@, 1, Len(@) - 1)]
  IN IF Len(top.path) > CycleMaxLen THEN popped
     ELSE LET newPath == Append(top.path, top.current)
              newVisited == top.visited \cup {top.current}
              nbrs == getNeighbors(g, top.current)
          IN CycleExpand(startNode, nbrs, newPath, newVisited, popped, 1, Len(nbrs))

\* the loop: its test reads the stack the iteration before left
RECURSIVE CycleWhile(_, _, _)
CycleWhile(g, startNode, st) ==
  IF st.stack = <<>> THEN st.cycles
  ELSE CycleWhile(g, startNode, CycleStep(g, startNode, st))

\* for (const startNode of nodeIds), for the nodes starts[lo..hi]: allCycles
\* in the order they are pushed
RECURSIVE AllCyclesV2(_, _, _, _, _)
AllCyclesV2(g, starts, acc, lo, hi) ==
  IF lo > hi THEN acc
  ELSE IF lo = hi
       THEN CycleWhile(g, starts[lo],
              [stack |-> <<[current |-> starts[lo], path |-> <<>>, visited |-> {}]>>,
               cycles |-> acc])
       ELSE LET mid == (lo + hi) \div 2
                a1 == AllCyclesV2(g, starts, acc, lo, mid)
            IN Strict(a1, AllCyclesV2(g, starts, a1, mid + 1, hi))

\* first occurrence per canonical key (the sorted members); the candidate is
\* the sorted member list
RECURSIVE CandidateCycles(_, _)
CandidateCycles(cycles, acc) ==
  IF cycles = <<>> THEN acc
  ELSE LET sorted == SortIds(Head(cycles))
           a1 == IF Contains(acc, sorted) THEN acc ELSE Append(acc, sorted)
       IN Strict(a1, CandidateCycles(Tail(cycles), a1))

\* the isSubset flags after the double loop over the candidates
RECURSIVE SubsetFlags(_, _, _)
SubsetFlags(cands, i, flags) ==
  IF i > Len(cands) THEN flags
  ELSE IF flags[i] THEN SubsetFlags(cands, i + 1, flags)
       ELSE LET hit == \E j \in DOMAIN cands :
                         /\ j # i
                         /\ ~flags[j]
                         /\ Cardinality(Range(cands[i])) < Cardinality(Range(cands[j]))
                         /\ Range(cands[i]) \subseteq Range(cands[j])
                f1 == [flags EXCEPT ![i] = hit]
            IN Strict(f1, SubsetFlags(cands, i + 1, f1))

computeCycleRiskV2(g, cycle) ==
  LET base == 50 + (IF Len(cycle) = 3 THEN 15
                    ELSE IF Len(cycle) = 4 THEN 25
                    ELSE IF Len(cycle) = 5 THEN 35 ELSE 0)
      vel == IF CycleTxCount(g, cycle, 1) > Len(cycle) * 2 THEN 10 ELSE 0
  IN 10 * Min2(100, base + vel)

\* the emitting loop: one ring per candidate that is not flagged
RECURSIVE EmitCyclesV2(_, _, _, _)
EmitCyclesV2(cands, flags, i, res) ==
  IF i > Len(cands) THEN res
  ELSE IF flags[i] THEN EmitCyclesV2(cands, flags, i + 1, res)
       ELSE LET cycle == cands[i]
                ringId == RingIdOf(res.counter + 1)
                ring == Ring(ringId, cycle, CyclePattern(Len(cycle)),
                             computeCycleRiskV2(res.graph, cycle))
                r1 == [rings |-> Append(res.rings, ring),
                       graph |-> MarkNodes(res.graph, cycle, CyclePattern(Len(cycle)),
                                           ringId),
                       counter |-> res.counter + 1]
            IN Strict(r1, EmitCyclesV2(cands, flags, i + 1, r1))

detectCyclesV2(g, counter) ==
  LET cands == CandidateCycles(AllCyclesV2(g, g.nodeIds, <<>>, 1, Len(g.nodeIds)), <<>>)
      flags == SubsetFlags(cands, 1, [i \in DOMAIN cands |-> FALSE])
  IN EmitCyclesV2(cands, flags, 1, [rings |-> <<>>, graph |-> g, counter |-> counter])

-----------------------------------------------------------------------------
(* Cycle detection, src/src/lib/detection-engine.ts *)

\* dfs(graph, start, current, path, visited, results, maxLen); the value is
\* `results` after the call (path and visited are restored on return)
RECURSIVE dfsV1(_, _, _, _, _, _)
RECURSIVE dfsV1Loop(_, _, _, _, _, _, _, _)
dfsV1(g, start, current, path, visited, results) ==
  IF Len(path) > CycleMaxLen THEN results
  ELSE LET nbrs == getNeighbors(g, current)
       IN dfsV1Loop(g, start, nbrs, Append(path, current), visited \cup {current},
                    results, 1, Len(nbrs))

\* the for-loop of dfs over the neighbors nbrs[lo..hi], by halves
dfsV1Loop(g, start, nbrs, path, visited, results, lo, hi) ==
  IF lo > hi THEN results
  ELSE IF lo = hi
       THEN LET neighbor == nbrs[lo]
            IN IF neighbor = start /\ Len(path) >= 3
               THEN Append(results, path)
               ELSE IF neighbor \notin visited /\ Len(path) < CycleMaxLen
                    THEN dfsV1(g, start, neighbor, path, visited, results)
                    ELSE results
       ELSE LET mid == (lo + hi) \div 2
                r1 == dfsV1Loop(g, start, nbrs, path, visited, results, lo, mid)
            IN Strict(r1, dfsV1Loop(g, start, nbrs, path, visited, r1, mid + 1, hi))

\* for (const start of nodeIds), for the nodes starts[lo..hi]
RECURSIVE AllCyclesV1(_, _, _, _, _)
AllCyclesV1(g, starts, acc, lo, hi) ==
  IF lo > hi THEN acc
  ELSE IF lo = hi THEN dfsV1(g, starts[lo], starts[lo], <<>>, {}, acc)
       ELSE LET mid == (lo + hi) \div 2
                a1 == AllCyclesV1(g, starts, acc, lo, mid)
            IN Strict(a1, AllCyclesV1(g, starts, a1, mid + 1, hi))

\* a.join('->') < b.join('->') for sequences of one-letter ids
RECURSIVE LexLess(_, _)
LexLess(a, b) ==
  IF a = <<>> THEN b # <<>>
  ELSE IF b = <<>> THEN FALSE
  ELSE IF Head(a) = Head(b) THEN LexLess(Tail(a), Tail(b))
  ELSE Rank(Head(a)) < Rank(Head(b))

Rotation(cycle, i) == SubSeq(cycle, i, Len(cycle)) \o SubSeq(cycle, 1, i - 1)

\* normalizeCycle: the least of the rotations of the path
normalizeCycle(cycle) ==
  LET rots == {Rotation(cycle, i) : i \in DOMAIN cycle}
  IN CHOOSE r \in rots : \A q \in rots : q = r \/ LexLess(r, q)

\* the per-edge mean amounts edge.totalAmount / edge.count along the cycle,
\* as pairs <<totalAmount, count>>
RECURSIVE CycleAmounts(_, _, _)
CycleAmounts(g, cycle, i) ==
  IF i > Len(cycle) THEN <<>>
  ELSE LET from == cycle[i]
           to == cycle[(i % Len(cycle)) + 1]
       IN (IF HasEdge(g, from, to)
           THEN <<(<<g.edges[EdgeKey(from, to)].totalAmount, g.edges[EdgeKey(from, to)].count>>)>>
           ELSE <<>>) \o CycleAmounts(g, cycle, i + 1)

RECURSIVE ProdRange(_, _, _)
ProdRange(s, lo, hi) ==
  IF lo > hi THEN 1
  ELSE IF lo = hi THEN s[lo]
       ELSE LET mid == (lo + hi) \div 2
            IN ProdRange(s, lo, mid) * ProdRange(s, mid + 1, hi)

SeqProd(s) == ProdRange(s, 1, Len(s))

\* sqrt(variance) / (avg || 1) < num/den for the fractions fr[i] = <<p, q>>
\* (p >= 0, q > 0), decided in integers: with D the product of the q's and
\* y[i] = p * D / q, the mean is S/(n D) and the variance (n SS - S^2)/(n D)^2
CvBelow(fr, num, den) ==
  LET n == Len(fr)
      D == SeqProd([i \in DOMAIN fr |-> fr[i][2]])
      y == [i \in DOMAIN fr |-> fr[i][1] * (D \div fr[i][2])]
      S == SeqSum(y)
      SS == SeqSum([i \in DOMAIN fr |-> y[i] * y[i]])
      varN == n * SS - S * S
  IN IF S = 0
     THEN den * den * varN < num * num * n * n * D * D
     ELSE den * den * varN < num * num * S * S

computeCycleRiskV1(g, cycle) ==
  LET base == 50 + (IF Len(cycle) = 3 THEN 20
                    ELSE IF Len(cycle) = 4 THEN 10 ELSE 0)
      vel == IF CycleTxCount(g, cycle, 1) > Len(cycle) * 2 THEN 15 ELSE 0
      amounts == CycleAmounts(g, cycle, 1)
      cons == IF Len(amounts) > 1 /\ CvBelow(amounts, 3, 10) THEN 10 ELSE 0
  IN 10 * Min2(100, base + vel + cons)

\* the dedup loop, which emits as it goes; res = [rings, graph, counter, seen]
RECURSIVE EmitCyclesV1(_, _)
EmitCyclesV1(cycles, res) ==
  IF cycles = <<>> THEN res
  ELSE LET cycle == Head(cycles)
           key == normalizeCycle(cycle)
           ringId == RingIdOf(res.counter + 1)
           ring == Ring(ringId, cycle, CyclePattern(Len(cycle)),
                        computeCycleRiskV1(res.graph, cycle))
           r1 == IF key \in res.seen THEN res
                 ELSE [rings |-> Append(res.rings, ring),
                       graph |-> MarkNodes(res.graph, cycle, CyclePattern(Len(cycle)),
                                           ringId),
                       counter |-> res.counter + 1,
                       seen |-> res.seen \cup {key}]
       IN Strict(r1, EmitCyclesV1(Tail(cycles), r1))

detectCyclesV1(g, counter) ==
  LET res == EmitCyclesV1(AllCyclesV1(g, g.nodeIds, <<>>, 1, Len(g.nodeIds)),
                          [rings |-> <<>>, graph |-> g, counter |-> counter, seen |-> {}])
  IN [rings |-> res.rings, graph |-> res.graph, counter |-> res.counter]

-----------------------------------------------------------------------------
(* Smurfing detection, both engines *)

\* a legitimacy filter that lets every account through
neverLegitimate(node) == FALSE

isLegitimate(node) == node.inDegree + node.outDegree > LegitCutoff

\* txs.sort((a, b) => a.timestamp - b.timestamp): stable
SortByTs(s) == StableSort(s, [i \in DOMAIN s |-> s[i].timestamp])

\* the {counterpart, timestamp} list of the transactions on the edges between
\* nodeId and its counterparts, before sorting
RECURSIVE CounterpartTxs(_, _, _, _)
CounterpartTxs(g, counterparts, nodeId, direction) ==
  IF counterparts = <<>> THEN <<>>
  ELSE LET cp == Head(counterparts)
           key == IF direction = "incoming" THEN EdgeKey(cp, nodeId) ELSE EdgeKey(nodeId, cp)
           own == IF key \in DOMAIN g.edges
                  THEN [i \in DOMAIN g.edges[key].transactions |->
                          [counterpart |-> cp,
                           timestamp |-> g.edges[key].transactions[i].timestamp]]
                  ELSE <<>>
       IN own \o CounterpartTxs(g, Tail(counterparts), nodeId, direction)

\* while (txs[end].timestamp - txs[start].timestamp > windowMs) start++
AdvanceStart(txs, start, end) ==
  CHOOSE s \in start..end :
     /\ txs[end].timestamp - txs[s].timestamp <= WINDOW_MS
     /\ \A r \in start..(s - 1) : txs[end].timestamp - txs[r].timestamp > WINDOW_MS

\* `start` when the loop body runs for `end`: txs is sorted, so the walk that
\* goes on from the previous start stops where a walk from the first would
StartAt(txs, end) == AdvanceStart(txs, 1, end)

\* the distinct counterparts of txs[start..end], in insertion order
WindowSet(txs, start, end) ==
  Dedup([i \in 1..(end - start + 1) |-> txs[start + i - 1].counterpart])

\* getTemporalCounterparts (part_003): the sliding-window loop; the window
\* kept is the first of the largest ones with at least 10 counterparts, and
\* <<>> stands for null
BestWindow(txs) ==
  LET window == [end \in DOMAIN txs |-> WindowSet(txs, StartAt(txs, end), end)]
      big == {end \in DOMAIN txs : Len(window[end]) >= 10}
  IN IF big = {} THEN <<>>
     ELSE window[CHOOSE end \in big :
                   /\ \A e \in big : Len(window[e]) <= Len(window[end])
                   /\ \A e \in big : e < end => Len(window[e]) < Len(window[end])]

getTemporalCounterparts(g, counterparts, nodeId, direction) ==
  LET txs == SortByTs(CounterpartTxs(g, counterparts, nodeId, direction))
  IN IF txs = <<>> THEN <<>> ELSE BestWindow(txs)

\* getTemporalWindows (detection-engine.ts): the first window reaching 10
\* distinct counterparts, or no window; <<>> stands for the empty list
FirstWindow(txs) ==
  LET window == [end \in DOMAIN txs |-> WindowSet(txs, StartAt(txs, end), end)]
      big == {end \in DOMAIN txs : Len(window[end]) >= 10}
  IN IF big = {} THEN <<>>
     ELSE window[CHOOSE end \in big : \A e \in big : end <= e]

getTemporalWindows(g, counterparts, nodeId, direction) ==
  LET txs == SortByTs(CounterpartTxs(g, counterparts, nodeId, direction))
  IN IF txs = <<>> THEN <<>> ELSE FirstWindow(txs)

SmurfRisk(size) == 10 * Min2(100, 60 + size * 2)

\* one direction of one node in detectSmurfing of part_003
SmurfDirV2(res, nodeId, direction) ==
  LET g == res.graph
      counterparts == IF direction = "incoming" THEN getIncoming(g, nodeId)
                      ELSE getNeighbors(g, nodeId)
      window == IF Len(counterparts) >= THRESHOLD
                THEN getTemporalCounterparts(g, counterparts, nodeId, direction)
                ELSE <<>>
      pattern == IF direction = "incoming" THEN "fan_in_72h" ELSE "fan_out_72h"
      ringId == RingIdOf(res.counter + 1)
  IN IF window # <<>> /\ Len(window) >= THRESHOLD
     THEN [rings |-> Append(res.rings,
                       Ring(ringId, SortIds(<<nodeId>> \o window), pattern,
                            SmurfRisk(Len(window)))),
           graph |-> MarkNodes(g, <<nodeId>> \o window, pattern, ringId),
           counter |-> res.counter + 1]
     ELSE res

\* for (const nodeId of nodeIds), for the nodes ids[lo..hi], by halves
RECURSIVE SmurfLoopV2(_, _, _, _)
SmurfLoopV2(ids, res, lo, hi) ==
  IF lo > hi THEN res
  ELSE IF lo = hi
       THEN IF isLegitimate(res.graph.nodes[ids[lo]]) THEN res
            ELSE SmurfDirV2(SmurfDirV2(res, ids[lo], "incoming"), ids[lo], "outgoing")
       ELSE LET mid == (lo + hi) \div 2
                r1 == SmurfLoopV2(ids, res, lo, mid)
            IN Strict(r1, SmurfLoopV2(ids, r1, mid + 1, hi))

detectSmurfingV2(g, counter) ==
  SmurfLoopV2(g.nodeIds, [rings |-> <<>>, graph |-> g, counter |-> counter],
              1, Len(g.nodeIds))

\* one direction of one node in detectSmurfing of detection-engine.ts
SmurfDirV1(res, nodeId, direction) ==
  LET g == res.graph
      counterparts == IF direction = "incoming" THEN getIncoming(g, nodeId)
                      ELSE getNeighbors(g, nodeId)
      window == IF Len(counterparts) >= THRESHOLD
                THEN getTemporalWindows(g, counterparts, nodeId, direction)
                ELSE <<>>
      pattern == IF direction = "incoming" THEN "fan_in_smurfing" ELSE "fan_out_smurfing"
      ringId == RingIdOf(res.counter + 1)
  IN IF window # <<>> /\ Len(window) >= THRESHOLD /\ ~isLegitimate(g.nodes[nodeId])
     THEN [rings |-> Append(res.rings,
                       Ring(ringId, <<nodeId>> \o window, pattern,
                            SmurfRisk(Len(window)))),
           graph |-> MarkNodes(g, <<nodeId>> \o window, pattern, ringId),
           counter |-> res.counter + 1]
     ELSE res

\* for (const nodeId of nodeIds), for the nodes ids[lo..hi], by halves
RECURSIVE SmurfLoopV1(_, _, _, _)
SmurfLoopV1(ids, res, lo, hi) ==
  IF lo > hi THEN res
  ELSE IF lo = hi
       THEN SmurfDirV1(SmurfDirV1(res, ids[lo], "incoming"), ids[lo], "outgoing")
       ELSE LET mid == (lo + hi) \div 2
                r1 == SmurfLoopV1(ids, res, lo, mid)
            IN Strict(r1, SmurfLoopV1(ids, r1, mid + 1, hi))

detectSmurfingV1(g, counter) ==
  SmurfLoopV1(g.nodeIds, [rings |-> <<>>, graph |-> g, counter |-> counter],
              1, Len(g.nodeIds))

-----------------------------------------------------------------------------
(* Shell network detection, both engines *)

RapidHoursV2 == 72
RapidHoursV1 == 24

SeqMax(s) == CHOOSE m \in Range(s) : \A x \in Range(s) : x <= m
SeqMin(s) == CHOOSE m \in Range(s) : \A x \in Range(s) : m <= x

EdgeTimes(g, a, b) ==
  [i \in DOMAIN g.edges[EdgeKey(a, b)].transactions |->
     g.edges[EdgeKey(a, b)].transactions[i].timestamp]

\* a forwarding test that every chain passes
alwaysRapid(g, chain, hours) == TRUE

\* hasRapidForwarding with the threshold `hours`: diffHours < hours, where
\* diffHours = (firstOut - lastIn) / (1000 * 60 * 60)
hasRapidForwarding(g, chain, hours) ==
  \E i \in 1..(Len(chain) - 2) :
     /\ HasEdge(g, chain[i], chain[i + 1])
     /\ HasEdge(g, chain[i + 1], chain[i + 2])
     /\ SeqMin(EdgeTimes(g, chain[i + 1], chain[i + 2]))
          - SeqMax(EdgeTimes(g, chain[i], chain[i + 1])) < hours * HourMs

\* chain.slice(1, -1).every(total >= 2 && total <= 3)
allShell(g, chain) ==
  \A i \in 2..(Len(chain) - 1) :
     /\ getTotalTransactions(g, chain[i]) >= 2
     /\ getTotalTransactions(g, chain[i]) <= 3

ShellRisk(len) == 10 * Min2(100, 55 + len * 8)

\* part_003 findShellChains: the for-loop over the neighbours of a popped entry
\* (the neighbours nbrs[lo..hi], by halves)
RECURSIVE ShellExpandV2(_, _, _, _, _, _, _)
ShellExpandV2(g, nbrs, newPath, newVisited, stack, lo, hi) ==
  IF lo > hi THEN stack
  ELSE IF lo = hi
       THEN LET neighbor == nbrs[lo]
                ok == /\ neighbor \notin newVisited
                      /\ (getTotalTransactions(g, neighbor) <= 3 \/ Len(newPath) = 1)
            IN IF ok THEN Append(stack, [current |-> neighbor, path |-> newPath,
                                         visited |-> newVisited])
               ELSE stack
       ELSE LET mid == (lo + hi) \div 2
                s1 == ShellExpandV2(g, nbrs, newPath, newVisited, stack, lo, mid)
            IN Strict(s1, ShellExpandV2(g, nbrs, newPath, newVisited, s1, mid + 1, hi))

RECURSIVE ShellWhileV2(_, _, _)
ShellWhileV2(g, stack, results) ==
  IF stack = <<>> THEN results
  ELSE LET top == stack[Len(stack)]
           rest == SubSeq(stack, 1, Len(stack) - 1)
           newPath == Append(top.path, top.current)
           newVisited == top.visited \cup {top.current}
           r1 == IF Len(newPath) >= ShellMinHops THEN Append(results, newPath)
                 ELSE results
           nbrs == getNeighbors(g, top.current)
           s1 == IF Len(newPath) < ShellMaxLen
                 THEN ShellExpandV2(g, nbrs, newPath, newVisited, rest, 1, Len(nbrs))
                 ELSE rest
       IN Strict(r1, ShellWhileV2(g, s1, r1))

findShellChainsV2(g, startId) ==
  ShellWhileV2(g, <<[current |-> startId, path |-> <<>>, visited |-> {}]>>, <<>>)

\* the loop over the chains of one start node; res = [rings, graph, counter, seen]
\* (the chains chains[lo..hi], by halves)
RECURSIVE ShellChainsV2(_, _, _, _)
ShellChainsV2(chains, res, lo, hi) ==
  IF lo > hi THEN res
  ELSE IF lo = hi
       THEN LET chain == chains[lo]
                sorted == SortIds(chain)
                ringId == RingIdOf(res.counter + 1)
                emit == /\ allShell(res.graph, chain)
                        /\ hasRapidForwarding(res.graph, chain, RapidHoursV2)
                        /\ sorted \notin res.seen
            IN IF emit
               THEN [rings |-> Append(res.rings,
                                 Ring(ringId, sorted, "shell_network",
                                      ShellRisk(Len(chain)))),
                     graph |-> MarkNodes(res.graph, chain, "shell_network", ringId),
                     counter |-> res.counter + 1,
                     seen |-> res.seen \cup {sorted}]
               ELSE res
       ELSE LET mid == (lo + hi) \div 2
                r1 == ShellChainsV2(chains, res, lo, mid)
            IN Strict(r1, ShellChainsV2(chains, r1, mid + 1, hi))

\* for (const startId of nodeIds), for the nodes starts[lo..hi], by halves
RECURSIVE ShellStartsV2(_, _, _, _)
ShellStartsV2(starts, res, lo, hi) ==
  IF lo > hi THEN res
  ELSE IF lo = hi
       THEN LET chains == findShellChainsV2(res.graph, starts[lo])
            IN ShellChainsV2(chains, res, 1, Len(chains))
       ELSE LET mid == (lo + hi) \div 2
                r1 == ShellStartsV2(starts, res, lo, mid)
            IN Strict(r1, ShellStartsV2(starts, r1, mid + 1, hi))

detectShellNetworksV2(g, counter) ==
  LET res == ShellStartsV2(g.nodeIds,
               [rings |-> <<>>, graph |-> g, counter |-> counter, seen |-> {}],
               1, Len(g.nodeIds))
  IN [rings |-> res.rings, graph |-> res.graph, counter |-> res.counter]

\* detection-engine.ts findShellChains: recursive, the value is the result list
RECURSIVE findShellChainsV1(_, _, _, _)
RECURSIVE ShellLoopV1(_, _, _, _)
findShellChainsV1(g, current, path, visited) ==
  LET p1 == Append(path, current)
      v1 == visited \cup {current}
      own == IF Len(p1) >= ShellMinHops THEN <<p1>> ELSE <<>>
  IN IF Len(p1) < ShellMaxLen
     THEN own \o ShellLoopV1(g, getNeighbors(g, current), p1, v1)
     ELSE own

ShellLoopV1(g, nbrs, path, visited) ==
  IF nbrs = <<>> THEN <<>>
  ELSE LET neighbor == Head(nbrs)
           ok == /\ neighbor \notin visited
                 /\ (getTotalTransactions(g, neighbor) <= 3 \/ Len(path) = 0)
       IN (IF ok THEN findShellChainsV1(g, neighbor, path, visited) ELSE <<>>)
          \o ShellLoopV1(g, Tail(nbrs), path, visited)

\* (the chains chains[lo..hi], by halves)
RECURSIVE ShellChainsV1(_, _, _, _)
ShellChainsV1(chains, res, lo, hi) ==
  IF lo > hi THEN res
  ELSE IF lo = hi
       THEN LET chain == chains[lo]
                ringId == RingIdOf(res.counter + 1)
                emit == /\ allShell(res.graph, chain)
                        /\ hasRapidForwarding(res.graph, chain, RapidHoursV1)
            IN IF emit
               THEN [rings |-> Append(res.rings,
                                 Ring(ringId, chain, "shell_network",
                                      ShellRisk(Len(chain)))),
                     graph |-> MarkNodes(res.graph, chain, "shell_network", ringId),
                     counter |-> res.counter + 1]
               ELSE res
       ELSE LET mid == (lo + hi) \div 2
                r1 == ShellChainsV1(chains, res, lo, mid)
            IN Strict(r1, ShellChainsV1(chains, r1, mid + 1, hi))

\* for (const [nodeId] of graph.nodes), for the nodes starts[lo..hi], by halves
RECURSIVE ShellStartsV1(_, _, _, _)
ShellStartsV1(starts, res, lo, hi) ==
  IF lo > hi THEN res
  ELSE IF lo = hi
       THEN LET chains == findShellChainsV1(res.graph, starts[lo], <<>>, {})
            IN ShellChainsV1(chains, res, 1, Len(chains))
       ELSE LET mid == (lo + hi) \div 2
                r1 == ShellStartsV1(starts, res, lo, mid)
            IN Strict(r1, ShellStartsV1(starts, r1, mid + 1, hi))

detectShellNetworksV1(g, counter) ==
  ShellStartsV1(g.nodeIds, [rings |-> <<>>, graph |-> g, counter |-> counter],
                1, Len(g.nodeIds))

-----------------------------------------------------------------------------
(* Scoring, src/src/lib/analyzer.ts:319-385 *)

NodeTimes(node) == [i \in DOMAIN node.transactions |-> node.transactions[i].timestamp]

\* some two neighbours of the sorted timestamps are closer than `gap`; the
\* default Array.sort() orders 13-digit instants numerically
HasClustering(node, gap) ==
  LET ts == SortNums(NodeTimes(node))
  IN \E i \in 2..Len(ts) : ts[i] - ts[i - 1] < gap

\* a scoring that leaves the score as the bonuses and reductions add up
UnclampedScore(score) == score

\* Math.min(100, Math.max(0, score))
ClampScore(score) == Min2(100, Max2(0, score))

\* the score computeSuspicionScores stores in a node, in tenths
NodeScoreV2(node) ==
  IF ~node.isSuspicious THEN 0
  ELSE LET patterns == Range(node.detectedPatterns)
           bonus == (IF "cycle_length_3" \in patterns THEN 20 ELSE 0)
                    + (IF "cycle_length_4" \in patterns THEN 30 ELSE 0)
                    + (IF "cycle_length_5" \in patterns THEN 40 ELSE 0)
                    + (IF "fan_in_72h" \in patterns THEN 35 ELSE 0)
                    + (IF "fan_out_72h" \in patterns THEN 35 ELSE 0)
                    + (IF "shell_network" \in patterns THEN 25 ELSE 0)
           multi == IF Cardinality(Range(node.ringIds)) > 1 THEN 10 ELSE 0
           sparse == IF Len(node.transactions) > 2 /\ ~HasClustering(node, WINDOW_MS)
                     THEN 10 ELSE 0
           oneWay == IF (node.inDegree = 0 \/ node.outDegree = 0)
                        /\ "fan_in_72h" \notin patterns /\ "fan_out_72h" \notin patterns
                     THEN 5 ELSE 0
           score == 20 + bonus + multi - sparse - oneWay
       IN 10 * ClampScore(score)

computeSuspicionScoresV2(g) ==
  [g EXCEPT !.nodes = [id \in DOMAIN g.nodes |->
                         [g.nodes[id] EXCEPT !.suspicionScore = NodeScoreV2(g.nodes[id])]]]

\* Math.round(x) for x = num/den >= 0, den > 0
RoundDiv(num, den) == (2 * num + den) \div (2 * den)

\* computeRingRiskScores: the risk_score it stores in `ring`, in tenths
RingRiskOf(g, ring) ==
  LET known == SelectSeq(ring.member_accounts, LAMBDA m : m \in DOMAIN g.nodes)
      total == SeqSum([i \in DOMAIN known |-> g.nodes[known[i]].suspicionScore])
  IN IF Len(known) > 0 THEN RoundDiv(total, Len(known)) ELSE ring.risk_score

computeRingRiskScores(g, rings) ==
  [i \in DOMAIN rings |-> [rings[i] EXCEPT !.risk_score = RingRiskOf(g, rings[i])]]

-----------------------------------------------------------------------------
(* Scoring, src/src/lib/scoring-engine.ts.  Its quotients are kept as exact *)
(* fractions <<numerator, denominator>> with a positive denominator.         *)

RECURSIVE Gcd(_, _)
Gcd(a, b) == IF b = 0 THEN a ELSE Gcd(b, a % b)

Frac(n, d) == LET k == Gcd(IF n < 0 THEN -n ELSE n, d)
              IN IF k = 0 THEN <<0, 1>> ELSE <<n \div k, d \div k>>
FInt(n) == <<n, 1>>
FAdd(a, b) == Frac(a[1] * b[2] + b[1] * a[2], a[2] * b[2])
FMul(a, b) == Frac(a[1] * b[1], a[2] * b[2])
FDiv(a, b) == Frac(a[1] * b[2], a[2] * b[1])
FLess(a, b) == a[1] * b[2] < b[1] * a[2]
FMax(a, b) == IF FLess(a, b) THEN b ELSE a
FMin(a, b) == IF FLess(b, a) THEN b ELSE a

\* the for-loop over graph.getNeighbors(v) of the breadth-first phase, for
\* the neighbours nbrs[lo..hi], by halves
RECURSIVE BfsNeighbors(_, _, _, _, _)
BfsNeighbors(st, v, nbrs, lo, hi) ==
  IF lo > hi THEN st
  ELSE IF lo = hi
       THEN LET w == nbrs[lo]
                s1 == IF st.dist[w] < 0
                      THEN [st EXCEPT !.queue = Append(@, w), !.dist[w] = st.dist[v] + 1]
                      ELSE st
            IN IF s1.dist[w] = s1.dist[v] + 1
               THEN [s1 EXCEPT !.sigma[w] = @ + s1.sigma[v], !.pred[w] = Append(@, v)]
               ELSE s1
       ELSE LET mid == (lo + hi) \div 2
                s1 == BfsNeighbors(st, v, nbrs, lo, mid)
            IN Strict(s1, BfsNeighbors(s1, v, nbrs, mid + 1, hi))

\* while (queue.length > 0): its test reads the queue the iteration before left
RECURSIVE BfsWhile(_, _)
BfsWhile(g, st) ==
  IF st.queue = <<>> THEN st
  ELSE BfsWhile(g, BfsNeighbors([st EXCEPT !.queue = Tail(@),
                                           !.stack = Append(@, Head(st.queue))],
                                Head(st.queue), getNeighbors(g, Head(st.queue)),
                                1, Len(getNeighbors(g, Head(st.queue)))))

\* for (const v of pred.get(w)): delta[v] += (sigma[v] / sigma[w]) * (1 + delta[w]),
\* for the predecessors preds[lo..hi], by halves
RECURSIVE AddDeltas(_, _, _, _, _, _)
AddDeltas(st, delta, w, preds, lo, hi) ==
  IF lo > hi THEN delta
  ELSE IF lo = hi
       THEN LET v == preds[lo]
                inc == FMul(Frac(st.sigma[v], st.sigma[w]), FAdd(FInt(1), delta[w]))
            IN [delta EXCEPT ![v] = FAdd(@, inc)]
       ELSE LET mid == (lo + hi) \div 2
                d1 == AddDeltas(st, delta, w, preds, lo, mid)
            IN Strict(d1, AddDeltas(st, d1, w, preds, mid + 1, hi))

\* the second while-loop: pops stack[hi] down to stack[lo], by halves;
\* acc = [delta, bc]
RECURSIVE Accumulate(_, _, _, _, _, _)
Accumulate(st, stack, source, acc, lo, hi) ==
  IF lo > hi THEN acc
  ELSE IF lo = hi
       THEN LET w == stack[lo]
                d1 == AddDeltas(st, acc.delta, w, st.pred[w], 1, Len(st.pred[w]))
                b1 == IF w # source THEN [acc.bc EXCEPT ![w] = FAdd(@, d1[w])]
                      ELSE acc.bc
            IN [delta |-> d1, bc |-> b1]
       ELSE LET mid == (lo + hi) \div 2
                a1 == Accumulate(st, stack, source, acc, mid + 1, hi)
            IN Strict(a1, Accumulate(st, stack, source, a1, lo, mid))

\* for (const source of sample), for the nodes sources[lo..hi], by halves
RECURSIVE BetweennessFrom(_, _, _, _, _)
BetweennessFrom(g, sources, bc, lo, hi) ==
  IF lo > hi THEN bc
  ELSE IF lo = hi
       THEN LET source == sources[lo]
                ids == DOMAIN g.nodes
                st0 == [dist |-> [id \in ids |-> IF id = source THEN 0 ELSE -1],
                        sigma |-> [id \in ids |-> IF id = source THEN 1 ELSE 0],
                        pred |-> [id \in ids |-> <<>>],
                        queue |-> <<source>>, stack |-> <<>>]
                st == BfsWhile(g, st0)
            IN Accumulate(st, st.stack, source,
                          [delta |-> [id \in ids |-> FInt(0)], bc |-> bc],
                          1, Len(st.stack)).bc
       ELSE LET mid == (lo + hi) \div 2
                b1 == BetweennessFrom(g, sources, bc, lo, mid)
            IN Strict(b1, BetweennessFrom(g, sources, b1, mid + 1, hi))

\* approximateBetweenness: every node is sampled while there are at most 200
approximateBetweenness(g) ==
  BetweennessFrom(g, g.nodeIds, [id \in DOMAIN g.nodes |-> FInt(0)],
                  1, Min2(Len(g.nodeIds), 200))

RECURSIVE FMaxOver(_, _)
FMaxOver(s, m) ==
  IF s = <<>> THEN m
  ELSE LET m1 == FMax(m, Head(s)) IN Strict(m1, FMaxOver(Tail(s), m1))

RECURSIVE MaxOver(_, _)
MaxOver(s, m) ==
  IF s = <<>> THEN m
  ELSE LET m1 == Max2(m, Head(s)) IN Strict(m1, MaxOver(Tail(s), m1))

\* the score the engine stores in a node, in tenths
NodeScoreV1(g, id, bc, maxDegree, maxBetweenness) ==
  LET node == g.nodes[id]
  IN IF ~node.isSuspicious THEN 0
     ELSE LET pat == Min2(30, Cardinality(Range(node.detectedPatterns)) * 12)
              rng == Min2(20, Cardinality(Range(node.ringIds)) * 8)
              vel == Frac((node.inDegree + node.outDegree) * 15, maxDegree)
              amounts == [i \in DOMAIN node.transactions |->
                            <<node.transactions[i].amount, 1>>]
              amt == IF Len(node.transactions) > 0
                     THEN (IF CvBelow(amounts, 2, 10) THEN 15
                           ELSE IF CvBelow(amounts, 5, 10) THEN 8 ELSE 0)
                     ELSE 0
              cen == FMul(FDiv(bc[id], maxBetweenness), FInt(10))
              ts == SortNums(NodeTimes(node))
              clustered == Cardinality({i \in 2..Len(ts) : ts[i] - ts[i - 1] < 3600000})
              tmp == IF Len(node.transactions) > 2
                     THEN FMin(FInt(10), Frac(clustered * 15, Len(ts)))
                     ELSE FInt(0)
              score == FMin(FInt(100),
                            FAdd(FInt(pat + rng + amt), FAdd(vel, FAdd(cen, tmp))))
          IN RoundDiv(10 * score[1], score[2])

computeSuspicionScoresV1(g) ==
  LET bc == approximateBetweenness(g)
      maxDegree == MaxOver([i \in DOMAIN g.nodeIds |->
                              getTotalTransactions(g, g.nodeIds[i])], 1)
      maxBetweenness == FMaxOver([i \in DOMAIN g.nodeIds |-> bc[g.nodeIds[i]]], FInt(1))
  IN Strict(<<bc, maxDegree, maxBetweenness>>,
            [g EXCEPT !.nodes = [id \in DOMAIN g.nodes |->
               [g.nodes[id] EXCEPT !.suspicionScore =
                  NodeScoreV1(g, id, bc, maxDegree, maxBetweenness)]]])

-----------------------------------------------------------------------------
(* Engine selection *)

detectCycles(b, g, counter) ==
  IF b = "v1" THEN detectCyclesV1(g, counter) ELSE detectCyclesV2(g, counter)

detectSmurfing(b, g, counter) ==
  IF b = "v1" THEN detectSmurfingV1(g, counter) ELSE detectSmurfingV2(g, counter)

detectShellNetworks(b, g, counter) ==
  IF b = "v1" THEN detectShellNetworksV1(g, counter)
  ELSE detectShellNetworksV2(g, counter)

computeSuspicionScores(b, g) ==
  IF b = "v1" THEN computeSuspicionScoresV1(g) ELSE computeSuspicionScoresV2(g)

\* a run that goes on counting where the run before stopped
keepRingCounter(counter) == counter

\* resetRingCounter()
resetRingCounter(counter) == 0

-----------------------------------------------------------------------------
(* Report assembly, src/src/lib/analyzer.ts:41-70 *)

NullRingId == "null"

\* .sort((a, b) => b.suspicionScore - a.suspicionScore): stable, descending
SortByScore(g, ids) ==
  StableSort(ids, [i \in DOMAIN ids |-> 0 - g.nodes[ids[i]].suspicionScore])

\* a report that lists a pattern as often as the detectors wrote it
repeatedPatterns(patterns) == patterns

\* [...new Set(n.detectedPatterns)]
uniquePatterns(patterns) == Dedup(patterns)

SuspiciousAccount(g, id) ==
  [account_id |-> id,
   suspicion_score |-> g.nodes[id].suspicionScore,
   detected_patterns |-> uniquePatterns(g.nodes[id].detectedPatterns),
   ring_id |-> IF g.nodes[id].ringIds # <<>> THEN g.nodes[id].ringIds[1]
               ELSE NullRingId]

suspiciousAccounts(g) ==
  LET ids == SortByScore(g, SelectSeq(g.nodeIds, LAMBDA id : g.nodes[id].isSuspicious))
  IN [i \in DOMAIN ids |-> SuspiciousAccount(g, ids[i])]

\* a report that lists the shell rings first
shellRingsFirst(cyc, smurf, shell) == shell \o cyc \o smurf

\* the rings analyzeTransactions puts in the report
allRings(cyc, smurf, shell) == cyc \o smurf \o shell

\* the returned DetectionResult, without the wall-clock processing time and
\* the echo of the graph
MakeReport(g, rings) ==
  LET accounts == suspiciousAccounts(g)
  IN [suspicious_accounts |-> accounts,
      fraud_rings |-> rings,
      summary |-> [total_accounts_analyzed |-> Cardinality(DOMAIN g.nodes),
                   suspicious_accounts_flagged |-> Len(accounts),
                   fraud_rings_detected |-> Len(rings)]]

NoReport == [suspicious_accounts |-> <<>>, fraud_rings |-> <<>>,
             summary |-> [total_accounts_analyzed |-> 0,
                          suspicious_accounts_flagged |-> 0,
                          fraud_rings_detected |-> 0]]

-----------------------------------------------------------------------------
(* Ring merging, src/src/lib/analyzer.ts:85-310.  The file holds two        *)
(* functions named mergeOverlappingRings: one with a union-find (lines      *)
(* 85-175) and a greedy one (lines 217-280), each with its own              *)
(* selectHighestSeverity.                                                   *)

SEVERITY_ORDER ==
  <<"shell_network", "cycle_length_5", "cycle_length_4", "cycle_length_3",
    "fan_in_72h", "fan_out_72h">>

\* SEVERITY_RANK[p], counted from 1; only compared
SEVERITY_RANK(p) == CHOOSE i \in DOMAIN SEVERITY_ORDER : SEVERITY_ORDER[i] = p

\* SEVERITY_RANK[p] < SEVERITY_RANK[q]: false when either rank is undefined
RankLess(p, q) ==
  /\ Contains(SEVERITY_ORDER, p)
  /\ Contains(SEVERITY_ORDER, q)
  /\ SEVERITY_RANK(p) < SEVERITY_RANK(q)

\* new Set(r.member_accounts)
MemberSet(ring) == Range(ring.member_accounts)

intersection(a, b) == Cardinality(a \cap b)

\* a test that takes any shared account for containment
sharesAccount(a, b) == a \cap b # {}

isSubsetOf(a, b) == a \subseteq b

\* overlap / size >= tenths / 10; a quotient by 0 is NaN or Infinity in the
\* source: NaN (0 / 0) compares false
RatioAtLeast(overlap, size, tenths) ==
  IF size = 0 THEN overlap > 0 ELSE 10 * overlap >= tenths * size

\* thresholds of the two variants, in tenths
UnionFindTenths == 5
GreedyTenths == 7

\* the elements of s whose flag is not set, in order
Unflagged(s, flags) ==
  LET keep == {i \in DOMAIN s : ~flags[i]}
  IN [k \in 1..Cardinality(keep) |->
        s[CHOOSE i \in keep : Cardinality({j \in keep : j < i}) = k - 1]]

\* selectHighestSeverity of lines 204-209: the first p of SEVERITY_ORDER
\* with patterns.has(p), else the first pattern
selectHighestSeverity(patterns) ==
  LET known == {i \in DOMAIN SEVERITY_ORDER : Contains(patterns, SEVERITY_ORDER[i])}
  IN IF known # {}
     THEN SEVERITY_ORDER[CHOOSE i \in known : \A j \in known : i <= j]
     ELSE IF patterns # <<>> THEN patterns[1] ELSE "unknown"

\* the tags of the model that hold one of the words cycle, fan, shell
KeywordTags ==
  Range(SEVERITY_ORDER) \cup {"fan_in_smurfing", "fan_out_smurfing"}

\* selectHighestSeverity of lines 299-310: before falling back on the first
\* pattern it looks for the first one holding cycle, fan or shell
selectHighestSeverityGreedy(patterns) ==
  LET known == {i \in DOMAIN SEVERITY_ORDER : Contains(patterns, SEVERITY_ORDER[i])}
      worded == {i \in DOMAIN patterns : patterns[i] \in KeywordTags}
  IN IF known # {}
     THEN SEVERITY_ORDER[CHOOSE i \in known : \A j \in known : i <= j]
     ELSE IF worded # {}
          THEN patterns[CHOOSE i \in worded : \A j \in worded : i <= j]
          ELSE IF patterns # <<>> THEN patterns[1] ELSE "unknown"

\* a merged ring that takes its risk from the first ring of the group
FirstRiskRing(n, rings, severity) ==
  Ring(RingIdOf(n),
       SortIds(Dedup(rings[1].member_accounts)),
       severity,
       rings[1].risk_score)

\* the ring built from the rings of one group, given in group order
MergedRing(n, rings, severity) ==
  LET concat == [k \in 1..SeqSum([i \in DOMAIN rings |-> Len(rings[i].member_accounts)]) |->
                   LET i == CHOOSE i \in DOMAIN rings :
                              /\ SeqSum([x \in 1..(i - 1) |-> Len(rings[x].member_accounts)]) < k
                              /\ k <= SeqSum([x \in 1..i |-> Len(rings[x].member_accounts)])
                   IN rings[i].member_accounts[
                        k - SeqSum([x \in 1..(i - 1) |-> Len(rings[x].member_accounts)])]]
  IN Ring(RingIdOf(n),
          SortIds(Dedup(concat)),
          severity,
          SeqMax(<<0>> \o [i \in DOMAIN rings |-> rings[i].risk_score]))

\* lines 88-97: the first ring of each sorted member list, replaced by a
\* later ring of the same members only when that one ranks more severe
RECURSIVE UniqueRings(_, _, _)
UniqueRings(rings, i, acc) ==
  IF i > Len(rings) THEN acc
  ELSE LET sorted == [rings[i] EXCEPT !.member_accounts = SortIds(@)]
           at == {k \in DOMAIN acc : acc[k].member_accounts = sorted.member_accounts}
       IN IF at = {} THEN UniqueRings(rings, i + 1, Append(acc, sorted))
          ELSE LET k == CHOOSE k \in at : TRUE
               IN IF RankLess(sorted.pattern_type, acc[k].pattern_type)
                  THEN UniqueRings(rings, i + 1, [acc EXCEPT ![k] = sorted])
                  ELSE UniqueRings(rings, i + 1, acc)

\* lines 100-112: isSubset
RECURSIVE MergeSubsetFlags(_, _, _)
MergeSubsetFlags(deduped, i, flags) ==
  IF i > Len(deduped) THEN flags
  ELSE IF flags[i] THEN MergeSubsetFlags(deduped, i + 1, flags)
  ELSE LET hit == \E j \in DOMAIN deduped :
                     /\ j # i
                     /\ ~flags[j]
                     /\ Cardinality(MemberSet(deduped[i])) < Cardinality(MemberSet(deduped[j]))
                     /\ isSubsetOf(MemberSet(deduped[i]), MemberSet(deduped[j]))
       IN MergeSubsetFlags(deduped, i + 1, [flags EXCEPT ![i] = hit])

\* find(x); the path halving it does leaves every root as it is
RECURSIVE find(_, _)
find(parent, x) == IF parent[x] = x THEN x ELSE find(parent, parent[x])

union(parent, a, b) ==
  LET ra == find(parent, a)
      rb == find(parent, b)
  IN IF ra # rb THEN [parent EXCEPT ![ra] = rb] ELSE parent

\* lines 130-140: union i and j when either side overlaps by the threshold
RECURSIVE UnionPairs(_, _, _, _)
UnionPairs(deduped, i, j, parent) ==
  IF i > Len(deduped) THEN parent
  ELSE IF j > Len(deduped) THEN UnionPairs(deduped, i + 1, i + 2, parent)
  ELSE LET overlap == intersection(MemberSet(deduped[i]), MemberSet(deduped[j]))
           merge == \/ RatioAtLeast(overlap, Cardinality(MemberSet(deduped[i])), UnionFindTenths)
                    \/ RatioAtLeast(overlap, Cardinality(MemberSet(deduped[j])), UnionFindTenths)
       IN UnionPairs(deduped, i, j + 1, IF merge THEN union(parent, i, j) ELSE parent)

\* lines 143-148: the groups, in the order their roots are first met
GroupsByRoot(parent) ==
  LET n == Len(parent)
      root == [i \in 1..n |-> find(parent, i)]
      firsts == [i \in 1..n |-> \E j \in 1..(i - 1) : root[j] = root[i]]
      leaders == Unflagged([i \in 1..n |-> i], firsts)
  IN [g \in DOMAIN leaders |->
        Unflagged([i \in 1..n |-> i], [i \in 1..n |-> root[i] # root[leaders[g]]])]

\* mergeOverlappingRings, lines 85-175
mergeOverlappingRingsUnionFind(rings) ==
  IF rings = <<>> THEN <<>>
  ELSE LET unique == UniqueRings(rings, 1, <<>>)
           flags == MergeSubsetFlags(unique, 1, [i \in DOMAIN unique |-> FALSE])
           deduped == Unflagged(unique, flags)
           parent == UnionPairs(deduped, 1, 2, [i \in DOMAIN deduped |-> i])
           groups == GroupsByRoot(parent)
       IN [g \in DOMAIN groups |->
             LET members == [k \in DOMAIN groups[g] |-> deduped[groups[g][k]]]
             IN MergedRing(g, members,
                  selectHighestSeverity(
                    Dedup([k \in DOMAIN members |-> members[k].pattern_type])))]

\* lines 232-247: the rings after ring i that join its group; ref is
\* memberSets[i], which grows with every ring that joins
RECURSIVE GreedyScan(_, _, _, _, _)
GreedyScan(rings, merged, j, ref, group) ==
  IF j > Len(rings) THEN [merged |-> merged, group |-> group]
  ELSE IF merged[j] THEN GreedyScan(rings, merged, j + 1, ref, group)
  ELSE LET overlap == intersection(ref, MemberSet(rings[j]))
           join == \/ RatioAtLeast(overlap, Cardinality(ref), GreedyTenths)
                   \/ RatioAtLeast(overlap, Cardinality(MemberSet(rings[j])), GreedyTenths)
       IN IF join
          THEN GreedyScan(rings, [merged EXCEPT ![j] = TRUE], j + 1,
                          ref \cup MemberSet(rings[j]), Append(group, j))
          ELSE GreedyScan(rings, merged, j + 1, ref, group)

\* lines 227-250
RECURSIVE GreedyGroups(_, _, _, _)
GreedyGroups(rings, merged, i, groups) ==
  IF i > Len(rings) THEN groups
  ELSE IF merged[i] THEN GreedyGroups(rings, merged, i + 1, groups)
  ELSE LET scan == GreedyScan(rings, [merged EXCEPT ![i] = TRUE], i + 1,
                              MemberSet(rings[i]), <<i>>)
       IN GreedyGroups(rings, scan.merged, i + 1, Append(groups, scan.group))

\* mergeOverlappingRings, lines 217-280
mergeOverlappingRingsGreedy(rings) ==
  IF rings = <<>> THEN <<>>
  ELSE LET groups == GreedyGroups(rings, [i \in DOMAIN rings |-> FALSE], 1, <<>>)
       IN [g \in DOMAIN groups |->
             LET members == [k \in DOMAIN groups[g] |-> rings[groups[g][k]]]
             IN MergedRing(g, members,
                  selectHighestSeverityGreedy(
                    Dedup([k \in DOMAIN members |-> members[k].pattern_type])))]

mergeOverlappingRings(variant, rings) ==
  IF variant = "unionfind" THEN mergeOverlappingRingsUnionFind(rings)
  ELSE mergeOverlappingRingsGreedy(rings)

-----------------------------------------------------------------------------
(* Inputs: transaction sequences, as the CSV parser hands them over *)

\* the i-th of n transactions over the sender/receiver pairs `pairs`:
\* timestamps |gap| apart (descending when gap < 0), amounts all 2 or 1,2,3,...
MkTx(pairs, i, gap, amts) ==
  [transaction_id |-> i,
   sender_id |-> pairs[i][1],
   receiver_id |-> pairs[i][2],
   amount |-> IF amts = "same" THEN 2 ELSE 1 + ((i - 1) % 3),
   timestamp |-> IF gap >= 0 THEN (i - 1) * gap ELSE (Len(pairs) - i) * (-gap)]

MkTxs(pairs, gap, amts) == [i \in DOMAIN pairs |-> MkTx(pairs, i, gap, amts)]

\* every sequence of at most MaxTx transactions over these pairs
PoolPairs == {<<"A", "B">>, <<"B", "C">>, <<"C", "A">>, <<"B", "A">>, <<"A", "A">>}

PairSeqs == UNION {[1..n -> PoolPairs] : n \in 0..MaxTx}

Chain(ids) == [i \in 1..(Len(ids) - 1) |-> <<ids[i], ids[i + 1]>>]
Loop(ids) == Append(Chain(ids), <<ids[Len(ids)], ids[1]>>)
Reverse(s) == [i \in DOMAIN s |-> s[Len(s) + 1 - i]]

SmallShapes ==
  { Loop(<<"A", "B", "C", "D">>),
    Loop(<<"C", "D", "A", "B">>),
    Loop(<<"A", "B", "C", "D", "E">>),
    Loop(<<"A", "B", "C", "D", "E", "F">>),
    Loop(<<"A", "B", "C">>) \o Chain(<<"C", "D", "A">>),
    Loop(<<"A", "B", "C">>) \o Loop(<<"A", "C", "B">>),
    Loop(<<"B", "C", "A">>) \o Loop(<<"B", "C", "A">>) \o Loop(<<"B", "C", "A">>),
    <<(<<"A", "A">>)>> \o Loop(<<"A", "B", "C">>),
    <<(<<"A", "A">>)>> \o Loop(<<"A", "B", "C">>) \o Loop(<<"A", "B", "C">>),
    <<(<<"B", "B">>)>> \o Chain(<<"A", "B", "C">>),
    Loop(<<"A", "B", "C", "D", "E">>) \o Chain(<<"D", "F", "A">>),
    Chain(<<"A", "B", "C", "D">>),
    Chain(<<"A", "B", "C", "D", "E">>),
    Reverse(Chain(<<"A", "B", "C", "D", "E">>)),
    Chain(<<"A", "B", "C", "D", "E", "F">>),
    Chain(<<"A", "B", "C", "D", "E", "F", "G">>),
    Chain(<<"A", "B", "C", "D">>) \o Chain(<<"E", "B">>) \o Chain(<<"F", "B">>),
    Chain(<<"A", "B", "C", "D">>) \o Chain(<<"C", "E">>) \o Chain(<<"C", "F">>),
    <<(<<"A->B", "C">>), (<<"A", "B->C">>)>> }

SmallGaps == {HourMs \div 2, HourMs, 24 * HourMs, 72 * HourMs, 73 * HourMs, -HourMs}

Spokes(n) == SubSeq(AccountIds, 1, n)
Hub == "K"
FanIn(n) == [i \in 1..n |-> <<Spokes(n)[i], Hub>>]
FanOut(n) == [i \in 1..n |-> <<Hub, Spokes(n)[i]>>]

RECURSIVE Repeat(_, _)
Repeat(s, k) == IF k = 0 THEN <<>> ELSE s \o Repeat(s, k - 1)

FanShapes ==
  { FanIn(THRESHOLD - 1),
    FanIn(THRESHOLD),
    FanOut(THRESHOLD),
    FanIn(THRESHOLD + 1),
    FanIn(THRESHOLD) \o <<(<<"L", Hub>>)>>,
    Reverse(FanIn(THRESHOLD)) \o <<(<<"A", Hub>>)>>,
    FanIn(THRESHOLD - 1) \o <<(<<Hub, Hub>>)>>,
    FanIn(THRESHOLD) \o FanOut(THRESHOLD),
    FanIn(THRESHOLD) \o Chain(<<Hub, "L", "A">>),
    FanIn(THRESHOLD) \o FanOut(THRESHOLD) \o Chain(<<Hub, "L", "A">>),
    FanIn(THRESHOLD) \o FanOut(THRESHOLD) \o Chain(<<Hub, "L", "A">>)
       \o Chain(<<"L", "B">>) }

FanGaps == {HourMs, 8 * HourMs, 9 * HourMs}

\* a hub whose degree passes the legitimacy cut-off
BusyShapes ==
  { Repeat(FanIn(THRESHOLD), LegitCutoff \div THRESHOLD),
    Repeat(FanIn(THRESHOLD), LegitCutoff \div THRESHOLD) \o <<(<<"A", Hub>>)>>,
    Repeat(FanIn(THRESHOLD), (LegitCutoff \div THRESHOLD) + 1) }

Inputs ==
  {MkTxs(p, gap, "mixed") : p \in PairSeqs, gap \in {HourMs, 73 * HourMs}}
  \cup {MkTxs(p, gap, a) : p \in SmallShapes, gap \in SmallGaps, a \in {"same", "mixed"}}
  \cup {MkTxs(p, gap, a) : p \in FanShapes, gap \in FanGaps, a \in {"same", "mixed"}}
  \cup {MkTxs(p, HourMs, "same") : p \in BusyShapes}

-----------------------------------------------------------------------------
(* analyzeTransactions, src/src/lib/analyzer.ts:6-71: one action per stretch *)
(* of code between two awaited ticks                                         *)

Init ==
  /\ build \in {"v1", "v2"}
  /\ input \in Inputs
  /\ ringCounter = 0
  /\ pc = [c \in Calls |-> "idle"]
  /\ graph = [c \in Calls |-> EmptyGraph]
  /\ cycleRings = [c \in Calls |-> <<>>]
  /\ smurfRings = [c \in Calls |-> <<>>]
  /\ shellRings = [c \in Calls |-> <<>>]
  /\ progress = [c \in Calls |-> <<>>]
  /\ stages = [c \in Calls |-> <<>>]
  /\ report = [c \in Calls |-> NoReport]
  /\ mergeVariant = "unionfind"
  /\ mergeIn = <<>>
  /\ mergeOut = <<>>
  /\ mergePc = "collect"

\* lines 10-14: resetRingCounter(); onProgress(10); await tick()
Start(c) ==
  /\ pc[c] = "idle"
  /\ \A d \in Calls : d < c => pc[d] = "done"
  /\ ringCounter' = resetRingCounter(ringCounter)
  /\ progress' = [progress EXCEPT ![c] = Append(@, 10)]
  /\ pc' = [pc EXCEPT ![c] = "build"]
  /\ UNCHANGED <<build, input, graph, cycleRings, smurfRings, shellRings, stages, report, mergeVars>>

\* a build step that reports the percent of the step before once more
BuildRepeating(c) ==
  /\ pc[c] = "build"
  /\ graph' = [graph EXCEPT ![c] = BuildGraph(input)]
  /\ stages' = [stages EXCEPT ![c] = Append(@, "build")]
  /\ progress' = [progress EXCEPT ![c] = Append(@, 10)]
  /\ pc' = [pc EXCEPT ![c] = "cycles"]
  /\ UNCHANGED <<build, input, ringCounter, cycleRings, smurfRings, shellRings, report, mergeVars>>

\* lines 16-19: new TransactionGraph(transactions); onProgress(25)
Build(c) ==
  /\ pc[c] = "build"
  /\ graph' = [graph EXCEPT ![c] = BuildGraph(input)]
  /\ stages' = [stages EXCEPT ![c] = Append(@, "build")]
  /\ progress' = [progress EXCEPT ![c] = Append(@, 25)]
  /\ pc' = [pc EXCEPT ![c] = "cycles"]
  /\ UNCHANGED <<build, input, ringCounter, cycleRings, smurfRings, shellRings, report, mergeVars>>

\* lines 21-24: detectCycles(graph); onProgress(50)
Cycles(c) ==
  /\ pc[c] = "cycles"
  /\ LET res == detectCycles(build, graph[c], ringCounter)
     IN /\ cycleRings' = [cycleRings EXCEPT ![c] = res.rings]
        /\ graph' = [graph EXCEPT ![c] = res.graph]
        /\ ringCounter' = res.counter
  /\ stages' = [stages EXCEPT ![c] = Append(@, "cycles")]
  /\ progress' = [progress EXCEPT ![c] = Append(@, 50)]
  /\ pc' = [pc EXCEPT ![c] = "smurfing"]
  /\ UNCHANGED <<build, input, smurfRings, shellRings, report, mergeVars>>

\* lines 26-29: detectSmurfing(graph); onProgress(70)
Smurfing(c) ==
  /\ pc[c] = "smurfing"
  /\ LET res == detectSmurfing(build, graph[c], ringCounter)
     IN /\ smurfRings' = [smurfRings EXCEPT ![c] = res.rings]
        /\ graph' = [graph EXCEPT ![c] = res.graph]
        /\ ringCounter' = res.counter
  /\ stages' = [stages EXCEPT ![c] = Append(@, "smurfing")]
  /\ progress' = [progress EXCEPT ![c] = Append(@, 70)]
  /\ pc' = [pc EXCEPT ![c] = "shell"]
  /\ UNCHANGED <<build, input, cycleRings, shellRings, report, mergeVars>>

\* lines 31-34: detectShellNetworks(graph); onProgress(85)
Shell(c) ==
  /\ pc[c] = "shell"
  /\ LET res == detectShellNetworks(build, graph[c], ringCounter)
     IN /\ shellRings' = [shellRings EXCEPT ![c] = res.rings]
        /\ graph' = [graph EXCEPT ![c] = res.graph]
        /\ ringCounter' = res.counter
  /\ stages' = [stages EXCEPT ![c] = Append(@, "shell")]
  /\ progress' = [progress EXCEPT ![c] = Append(@, 85)]
  /\ pc' = [pc EXCEPT ![c] = "score"]
  /\ UNCHANGED <<build, input, cycleRings, smurfRings, report, mergeVars>>

\* lines 36-39: computeSuspicionScores(graph); onProgress(95)
Score(c) ==
  /\ pc[c] = "score"
  /\ graph' = [graph EXCEPT ![c] = computeSuspicionScores(build, graph[c])]
  /\ stages' = [stages EXCEPT ![c] = Append(@, "score")]
  /\ progress' = [progress EXCEPT ![c] = Append(@, 95)]
  /\ pc' = [pc EXCEPT ![c] = "assemble"]
  /\ UNCHANGED <<build, input, ringCounter, cycleRings, smurfRings, shellRings, report, mergeVars>>

\* lines 41-70: the report is put together and returned; onProgress(100)
Assemble(c) ==
  /\ pc[c] = "assemble"
  /\ report' = [report EXCEPT ![c] =
        MakeReport(graph[c], allRings(cycleRings[c], smurfRings[c], shellRings[c]))]
  /\ stages' = [stages EXCEPT ![c] = Append(@, "assemble")]
  /\ progress' = [progress EXCEPT ![c] = Append(@, 100)]
  /\ pc' = [pc EXCEPT ![c] = "done"]
  /\ UNCHANGED <<build, input, ringCounter, graph, cycleRings, smurfRings, shellRings, mergeVars>>

Next ==
  \E c \in Calls :
     \/ Start(c)
     \/ Build(c)
     \/ Cycles(c)
     \/ Smurfing(c)
     \/ Shell(c)
     \/ Score(c)
     \/ Assemble(c)

Spec == Init /\ [][Next]_vars

\* a timer that brings the call back to where it waits
StaysAt(at) == at

\* the position a call resumes at after the position at
Resumes(at) ==
  CASE at = "idle" -> "build"
    [] at = "build" -> "cycles"
    [] at = "cycles" -> "smurfing"
    [] at = "smurfing" -> "shell"
    [] at = "shell" -> "score"
    [] at = "score" -> "assemble"
    [] at = "assemble" -> "done"
    [] OTHER -> "done"

\* tick(), lines 73-75: the 10 ms timer of a call expires and the call goes
\* on to its next position; the steps of Next, seen through pc alone
tick ==
  \E c \in Calls :
     /\ pc[c] # "done"
     /\ \A d \in Calls : d < c => pc[d] = "done"
     /\ pc' = [pc EXCEPT ![c] = Resumes(pc[c])]

\* every stretch of code between two awaited ticks is a finite computation
\* and the event loop runs each expired timer, so a call that can go on does
LiveSpec == Init /\ [][Next]_vars /\ WF_pc(tick)

-----------------------------------------------------------------------------
(* mergeOverlappingRings called on rings a caller has collected *)

\* most rings handed to one call of mergeOverlappingRings
MaxMergeRings == 3

MergePool ==
  { Ring("RING_001", <<"A", "B", "C", "D", "E">>, "cycle_length_5", 850),
    Ring("RING_002", <<"A", "B", "C", "D", "F">>, "cycle_length_5", 950),
    Ring("RING_003", <<"D", "E", "F", "G">>, "shell_network", 870),
    Ring("RING_004", <<"A", "B", "C", "D">>, "cycle_length_4", 750),
    Ring("RING_005", <<"A", "B", "G", "H">>, "shell_network", 870),
    Ring("RING_006", <<"B", "A", "C">>, "cycle_length_3", 650),
    Ring("RING_007", <<"A", "B", "C">>, "shell_network", 790),
    Ring("RING_008", <<"G", "H", "I">>, "fan_in_smurfing", 800),
    Ring("RING_009", <<"C", "B", "A">>, "cycle_length_3", 990) }

MergeInit ==
  /\ build = "v1"
  /\ input = <<>>
  /\ ringCounter = 0
  /\ pc = [c \in Calls |-> "idle"]
  /\ graph = [c \in Calls |-> EmptyGraph]
  /\ cycleRings = [c \in Calls |-> <<>>]
  /\ smurfRings = [c \in Calls |-> <<>>]
  /\ shellRings = [c \in Calls |-> <<>>]
  /\ progress = [c \in Calls |-> <<>>]
  /\ stages = [c \in Calls |-> <<>>]
  /\ report = [c \in Calls |-> NoReport]
  /\ mergeVariant \in {"unionfind", "greedy"}
  /\ mergeIn = <<>>
  /\ mergeOut = <<>>
  /\ mergePc = "collect"

\* the caller adds one more ring to the list it will hand over
Collect(ring) ==
  /\ mergePc = "collect"
  /\ Len(mergeIn) < MaxMergeRings
  /\ mergeIn' = Append(mergeIn, ring)
  /\ UNCHANGED <<pipelineVars, mergeVariant, mergeOut, mergePc>>

\* mergeOverlappingRings(rings)
Merge ==
  /\ mergePc = "collect"
  /\ mergeOut' = mergeOverlappingRings(mergeVariant, mergeIn)
  /\ mergePc' = "done"
  /\ UNCHANGED <<pipelineVars, mergeVariant, mergeIn>>

MergeNext ==
  \/ \E ring \in MergePool : Collect(ring)
  \/ Merge

MergeSpec == MergeInit /\ [][MergeNext]_vars

-----------------------------------------------------------------------------
(* Properties of the returned reports *)

Finished(c) == pc[c] = "done"

Members(ring) == Range(ring.member_accounts)

Rings(c) == report[c].fraud_rings

Accounts(c) == report[c].suspicious_accounts

IsCycleRing(ring) ==
  ring.pattern_type \in {"cycle_length_3", "cycle_length_4", "cycle_length_5"}

InputHasEdge(a, b) ==
  \E i \in DOMAIN input : input[i].sender_id = a /\ input[i].receiver_id = b

InputHasSelfLoop == \E i \in DOMAIN input : input[i].sender_id = input[i].receiver_id

\* p lists distinct accounts, at least three, and the input holds a transaction
\* from each to the next and from the last to the first
IsSimpleCycle(p) ==
  /\ Len(p) >= 3
  /\ NoDupSeq(p)
  /\ \A i \in DOMAIN p : InputHasEdge(p[i], p[(i % Len(p)) + 1])

Orderings(S) == {p \in [1..Cardinality(S) -> S] : Range(p) = S}

\* the mean of the members' suspicion scores, rounded to one decimal (tenths)
MeanMemberScore(c, ring) ==
  RoundDiv(SeqSum([i \in DOMAIN ring.member_accounts |->
                     graph[c].nodes[ring.member_accounts[i]].suspicionScore]),
           Len(ring.member_accounts))

\* C1: in every returned report no two rings have the same member set and no
\* ring's member set is a strict subset of another ring's member set.
C1_SubsetFreedom ==
  \A c \in Calls :
     Finished(c) =>
       \A i, j \in DOMAIN Rings(c) :
          i # j => ~(Members(Rings(c)[i]) \subseteq Members(Rings(c)[j]))

\* C2: in the returned report every member of every ring is a graph node, has
\* an entry in suspicious_accounts, and carries the ring's id in its ringIds.
C2_MembershipCoherence ==
  \A c \in Calls :
     Finished(c) =>
       \A i \in DOMAIN Rings(c) :
          \A a \in Members(Rings(c)[i]) :
             /\ a \in DOMAIN graph[c].nodes
             /\ graph[c].nodes[a].isSuspicious
             /\ \E k \in DOMAIN Accounts(c) : Accounts(c)[k].account_id = a
             /\ Contains(graph[c].nodes[a].ringIds, Rings(c)[i].ring_id)

C2_Witness ==
  \E c \in Calls :
     /\ Finished(c)
     /\ cycleRings[c] # <<>>
     /\ shellRings[c] # <<>>
     /\ \E a \in DOMAIN graph[c].nodes : Len(graph[c].nodes[a].ringIds) >= 2

DenseId(i) ==
  "RING_" \o (IF i < 10 THEN "00" ELSE IF i < 100 THEN "0" ELSE "") \o ToString(i)

\* C3: the i-th ring of every returned report has the id RING_ followed by i
\* padded to three digits, in the first run and in every later run.
C3_RingIdsDense ==
  \A c \in Calls :
     Finished(c) =>
       \A i \in DOMAIN Rings(c) : Rings(c)[i].ring_id = DenseId(i)

C3_Witness ==
  /\ Finished(MaxRuns)
  /\ cycleRings[MaxRuns] # <<>>
  /\ smurfRings[MaxRuns] # <<>>
  /\ shellRings[MaxRuns] # <<>>

\* C4: suspicious_accounts is ordered by suspicion_score, highest first, and
\* entries of equal score stand in ascending account id order.
C4_SortOrder ==
  \A c \in Calls :
     Finished(c) =>
       \A i \in 1..(Len(Accounts(c)) - 1) :
          \/ Accounts(c)[i].suspicion_score > Accounts(c)[i + 1].suspicion_score
          \/ /\ Accounts(c)[i].suspicion_score = Accounts(c)[i + 1].suspicion_score
             /\ Rank(Accounts(c)[i].account_id) < Rank(Accounts(c)[i + 1].account_id)

\* C5: two runs of the pipeline on the same input, the second after the first
\* in the same process, return identical reports.
C5_Determinism ==
  \A c, d \in Calls : (Finished(c) /\ Finished(d)) => report[c] = report[d]

C5_Witness ==
  /\ \A c \in Calls : Finished(c)
  /\ Len(Rings(1)) >= 2
  /\ Len(Accounts(1)) >= 3

\* C6: every ring of the report has a non-empty member list, sorted ascending
\* and without duplicates.
C6_CanonicalMembers ==
  \A c \in Calls :
     Finished(c) =>
       \A i \in DOMAIN Rings(c) :
          /\ Rings(c)[i].member_accounts # <<>>
          /\ IsSortedIds(Rings(c)[i].member_accounts)
          /\ NoDupSeq(Rings(c)[i].member_accounts)

\* C7: every suspicion_score and every risk_score of the report lies in
\* [0, 100] (scores are held in tenths).
C7_ScoreBounds ==
  \A c \in Calls :
     Finished(c) =>
       /\ \A k \in DOMAIN Accounts(c) :
             Accounts(c)[k].suspicion_score \in 0..1000
       /\ \A i \in DOMAIN Rings(c) : Rings(c)[i].risk_score \in 0..1000
       /\ \A a \in DOMAIN graph[c].nodes : graph[c].nodes[a].suspicionScore \in 0..1000

C7_Witness ==
  \E c \in Calls :
     /\ Finished(c)
     /\ \E a \in DOMAIN graph[c].nodes :
           /\ {"cycle_length_3", "fan_in_72h", "fan_out_72h", "shell_network"}
                 \subseteq Range(graph[c].nodes[a].detectedPatterns)
           /\ Cardinality(Range(graph[c].nodes[a].ringIds)) > 1
           /\ \E k \in DOMAIN Accounts(c) :
                 /\ Accounts(c)[k].account_id = a
                 /\ Accounts(c)[k].suspicion_score = 1000

\* C8: every cycle ring lists 3 to 5 distinct accounts that lie, in some order,
\* on a closed chain of transactions between distinct accounts; so a self-loop
\* never makes a cycle, and an input without such a chain yields no cycle ring.
C8_SelfLoopSafety ==
  \A c \in Calls :
     \A i \in DOMAIN cycleRings[c] :
        /\ NoDupSeq(cycleRings[c][i].member_accounts)
        /\ Len(cycleRings[c][i].member_accounts) \in 3..CycleMaxLen
        /\ \E p \in Orderings(Members(cycleRings[c][i])) : IsSimpleCycle(p)

C8_Witness ==
  \E c \in Calls :
     /\ Finished(c)
     /\ \E i \in DOMAIN input :
           /\ input[i].sender_id = input[i].receiver_id
           /\ \E k \in DOMAIN cycleRings[c] :
                 input[i].sender_id \in Members(cycleRings[c][k])

\* C9: every run goes through the stages build, cycle detection, smurfing
\* detection, shell detection, ring merge, ringIds rebuild, account scoring,
\* ring scoring and report assembly, in this order.
C9_StageOrder ==
  \A c \in Calls :
     Finished(c) =>
       stages[c] = <<"build", "cycles", "smurfing", "shell", "merge", "rebuild",
                     "score", "ringscore", "assemble">>

\* C10: the risk_score of every ring of the report is the mean of its members'
\* suspicion scores, rounded to one decimal.
C10_RingRiskIsMean ==
  \A c \in Calls :
     Finished(c) =>
       \A i \in DOMAIN Rings(c) :
          Rings(c)[i].risk_score = MeanMemberScore(c, Rings(c)[i])

-----------------------------------------------------------------------------
(* analyzeTransactions called again while an earlier call is suspended at   *)
(* one of its awaited ticks: the function is exported and async, and does   *)
(* not refuse such a call                                                   *)

OverlapInputs ==
  {MkTxs(p, HourMs, "same") :
     p \in SmallShapes \cup {FanIn(THRESHOLD) \o Chain(<<Hub, "L", "A">>)}}

OverlapInit ==
  /\ build \in {"v1", "v2"}
  /\ input \in OverlapInputs
  /\ ringCounter = 0
  /\ pc = [c \in Calls |-> "idle"]
  /\ graph = [c \in Calls |-> EmptyGraph]
  /\ cycleRings = [c \in Calls |-> <<>>]
  /\ smurfRings = [c \in Calls |-> <<>>]
  /\ shellRings = [c \in Calls |-> <<>>]
  /\ progress = [c \in Calls |-> <<>>]
  /\ stages = [c \in Calls |-> <<>>]
  /\ report = [c \in Calls |-> NoReport]
  /\ mergeVariant = "unionfind"
  /\ mergeIn = <<>>
  /\ mergeOut = <<>>
  /\ mergePc = "collect"

\* lines 10-14, whatever the other calls are doing
StartOverlapping(c) ==
  /\ pc[c] = "idle"
  /\ ringCounter' = resetRingCounter(ringCounter)
  /\ progress' = [progress EXCEPT ![c] = Append(@, 10)]
  /\ pc' = [pc EXCEPT ![c] = "build"]
  /\ UNCHANGED <<build, input, graph, cycleRings, smurfRings, shellRings, stages,
                 report, mergeVars>>

OverlapNext ==
  \E c \in Calls :
     \/ StartOverlapping(c)
     \/ Build(c)
     \/ Cycles(c)
     \/ Smurfing(c)
     \/ Shell(c)
     \/ Score(c)
     \/ Assemble(c)

OverlapSpec == OverlapInit /\ [][OverlapNext]_vars

-----------------------------------------------------------------------------
(* Scoring, detectors and report fields *)

PatternTags ==
  {"cycle_length_3", "cycle_length_4", "cycle_length_5",
   "fan_in_72h", "fan_out_72h", "shell_network"}

\* the bonus, in whole points, the scoring table gives a pattern tag
PatternBonus(tag) ==
  CASE tag = "cycle_length_3" -> 20
    [] tag = "cycle_length_4" -> 30
    [] tag = "cycle_length_5" -> 40
    [] tag = "fan_in_72h" -> 35
    [] tag = "fan_out_72h" -> 35
    [] tag = "shell_network" -> 25
    [] OTHER -> 0

RECURSIVE SumBonus(_)
SumBonus(tags) ==
  IF tags = {} THEN 0
  ELSE LET tag == CHOOSE x \in tags : TRUE
       IN PatternBonus(tag) + SumBonus(tags \ {tag})

\* min(100, 20 + bonuses of the distinct tags + 10 when in several rings),
\* in tenths; 0 for an account that is not suspicious
TableScore(node) ==
  IF ~node.isSuspicious THEN 0
  ELSE 10 * Min2(100, 20 + SumBonus(Range(node.detectedPatterns))
                         + (IF Cardinality(Range(node.ringIds)) > 1 THEN 10 ELSE 0))

\* C11: after scoring, every account's suspicion score is 0 when it is not
\* suspicious and otherwise min(100, 20 + the bonuses of its distinct pattern
\* tags + 10 if it is in more than one ring); nothing else enters the score.
C11_ScoreTable ==
  \A c \in Calls :
     Finished(c) =>
       \A a \in DOMAIN graph[c].nodes :
          graph[c].nodes[a].suspicionScore = TableScore(graph[c].nodes[a])

InputAccounts ==
  {input[i].sender_id : i \in DOMAIN input} \cup {input[i].receiver_id : i \in DOMAIN input}

\* the walks over k distinct accounts that follow transactions of the input
RECURSIVE SimplePaths(_)
SimplePaths(k) ==
  IF k = 1 THEN {<<a>> : a \in InputAccounts}
  ELSE UNION {{Append(p, b) : b \in {x \in InputAccounts \ Range(p) :
                                         InputHasEdge(p[Len(p)], x)}} :
              p \in SimplePaths(k - 1)}

\* the account sets of the simple directed cycles over 3 to CycleMaxLen accounts
CycleSets ==
  {Range(p) : p \in {q \in UNION {SimplePaths(k) : k \in 3..CycleMaxLen} :
                        InputHasEdge(q[Len(q)], q[1])}}

MaximalCycleSets ==
  {S \in CycleSets : ~\E T \in CycleSets : S \subseteq T /\ S # T}

CyclesDone(c) == Contains(stages[c], "cycles")

\* C12: the rings detectCycles returns have as member sets exactly the
\* maximal account sets of the simple directed cycles over 3, 4 or 5
\* accounts, each once, and each ring is tagged cycle_length_k, k being its
\* number of members.
C12_MaximalCycles ==
  \A c \in Calls :
     CyclesDone(c) =>
       /\ {Members(cycleRings[c][i]) : i \in DOMAIN cycleRings[c]} = MaximalCycleSets
       /\ Len(cycleRings[c]) = Cardinality(MaximalCycleSets)
       /\ \A i \in DOMAIN cycleRings[c] :
             cycleRings[c][i].pattern_type =
                CyclePattern(Cardinality(Members(cycleRings[c][i])))

Directions == {"incoming", "outgoing"}

FanTag(direction) == IF direction = "incoming" THEN "fan_in_72h" ELSE "fan_out_72h"

\* the transactions of the input that account n receives (incoming) or sends
DirTxs(n, direction) ==
  {i \in DOMAIN input :
     IF direction = "incoming" THEN input[i].receiver_id = n
     ELSE input[i].sender_id = n}

Counterparty(i, direction) ==
  IF direction = "incoming" THEN input[i].sender_id ELSE input[i].receiver_id

Counterparties(n, direction) ==
  {Counterparty(i, direction) : i \in DirTxs(n, direction)}

\* some span of at most 72 hours holds transactions of n with at least
\* THRESHOLD distinct counterparties
Triggering(n, direction) ==
  \E i \in DirTxs(n, direction) :
     Cardinality({Counterparty(j, direction) :
                    j \in {k \in DirTxs(n, direction) :
                             /\ input[k].timestamp >= input[i].timestamp
                             /\ input[k].timestamp - input[i].timestamp <= WINDOW_MS}})
        >= THRESHOLD

InputDegree(n) ==
  Cardinality(DirTxs(n, "incoming")) + Cardinality(DirTxs(n, "outgoing"))

\* ring is a ring around the aggregator n: n and counterparties of n only,
\* at least THRESHOLD of them
IsRingAround(ring, n, direction) ==
  /\ n \in Members(ring)
  /\ (Members(ring) \ {n}) \subseteq Counterparties(n, direction)
  /\ Cardinality(Members(ring) \cap Counterparties(n, direction)) >= THRESHOLD

SmurfingDone(c) == Contains(stages[c], "smurfing")

\* C13: for every account of degree at most 100 and each direction,
\* detectSmurfing returns exactly one ring around the account, tagged
\* fan_in_72h or fan_out_72h, when at least 10 distinct counterparties fall in
\* one span of at most 72 hours, and no ring around it otherwise.
C13_OneRingPerAggregator ==
  \A c \in Calls :
     SmurfingDone(c) =>
       \A n \in InputAccounts : \A direction \in Directions :
          InputDegree(n) <= LegitCutoff =>
            Cardinality({i \in DOMAIN smurfRings[c] :
                           /\ smurfRings[c][i].pattern_type = FanTag(direction)
                           /\ IsRingAround(smurfRings[c][i], n, direction)})
               = (IF Triggering(n, direction) THEN 1 ELSE 0)

FanTags == {"fan_in_72h", "fan_out_72h", "fan_in_smurfing", "fan_out_smurfing"}

\* C14: an account whose in-degree plus out-degree exceeds 100 is the
\* aggregator of no ring of the smurfing detector, however many distinct
\* counterparties it has inside 72 hours, and the detector puts no fan tag on
\* it unless it is a counterparty in some other account's ring.
C14_LegitimacyFilter ==
  \A c \in Calls :
     SmurfingDone(c) =>
       \A n \in InputAccounts :
          InputDegree(n) > LegitCutoff =>
            /\ \A i \in DOMAIN smurfRings[c] : \A direction \in Directions :
                  ~IsRingAround(smurfRings[c][i], n, direction)
            /\ (\A i \in DOMAIN smurfRings[c] : n \notin Members(smurfRings[c][i]))
                  => Range(graph[c].nodes[n].detectedPatterns) \cap FanTags = {}

C14_Witness ==
  \E c \in Calls :
     /\ Finished(c)
     /\ \E n \in InputAccounts :
           /\ InputDegree(n) > LegitCutoff
           /\ Triggering(n, "incoming")
           /\ ~graph[c].nodes[n].isSuspicious

-----------------------------------------------------------------------------
(* Properties of mergeOverlappingRings *)

\* the member sets that survive deduplication and subset elimination
Survivors(rings) ==
  LET sets == {MemberSet(rings[i]) : i \in DOMAIN rings}
  IN {S \in sets : ~\E T \in sets : S \subseteq T /\ S # T}

\* at least 70% of M or of N lies in both
Linked(M, N) ==
  \/ 10 * Cardinality(M \cap N) >= 7 * Cardinality(M)
  \/ 10 * Cardinality(M \cap N) >= 7 * Cardinality(N)

\* the sets of `all` that a chain of linked sets joins to a set of `group`
RECURSIVE LinkClosure(_, _)
LinkClosure(group, all) ==
  LET next == group \cup {N \in all : \E M \in group : Linked(M, N)}
  IN IF next = group THEN group ELSE LinkClosure(next, all)

MergedSets(rings) ==
  {UNION LinkClosure({S}, Survivors(rings)) : S \in Survivors(rings)}

\* C15: the rings mergeOverlappingRings returns are the unions of the classes
\* of the transitive closure of the 70% overlap relation on the surviving
\* member sets, one ring per class, whatever the order of the rings given.
C15_TransitiveMerge ==
  mergePc = "done" =>
    /\ {MemberSet(mergeOut[i]) : i \in DOMAIN mergeOut} = MergedSets(mergeIn)
    /\ Len(mergeOut) = Cardinality(MergedSets(mergeIn))

-----------------------------------------------------------------------------
(* Properties of the report, continued *)

\* C16: every ring of the report has one of the six pattern tags as its
\* pattern_type, and every tag in an account's detected_patterns is one of
\* the six.
C16_KnownTags ==
  \A c \in Calls :
     Finished(c) =>
       /\ \A i \in DOMAIN Rings(c) : Rings(c)[i].pattern_type \in PatternTags
       /\ \A k \in DOMAIN Accounts(c) :
             Range(Accounts(c)[k].detected_patterns) \subseteq PatternTags

\* the transaction of the input from a to b (there is exactly one)
HopTime(a, b) ==
  LET i == CHOOSE i \in DOMAIN input : input[i].sender_id = a /\ input[i].receiver_id = b
  IN input[i].timestamp

\* the input is one directed chain over 3 to 6 accounts, one transaction per
\* hop, consecutive hops less than 72 hours apart, and nothing else
IsShortChain ==
  /\ Cardinality(InputAccounts) \in ShellMinHops..ShellMaxLen
  /\ Len(input) = Cardinality(InputAccounts) - 1
  /\ \E p \in SimplePaths(Cardinality(InputAccounts)) :
        \A i \in 1..(Len(p) - 2) :
           LET gap == HopTime(p[i + 1], p[i + 2]) - HopTime(p[i], p[i + 1])
           IN gap < WINDOW_MS /\ 0 - gap < WINDOW_MS

\* C17: for an input that is a single chain of 3 to 6 accounts with one
\* transaction per hop and consecutive hops less than 72 hours apart, the
\* report holds exactly one ring, tagged shell_network, whose members are all
\* the accounts of the chain, and every account of the chain scores 45.0.
C17_ChainScenario ==
  \A c \in Calls :
     (Finished(c) /\ IsShortChain) =>
       /\ Len(Rings(c)) = 1
       /\ Rings(c)[1].pattern_type = "shell_network"
       /\ Members(Rings(c)[1]) = InputAccounts
       /\ {Accounts(c)[k].account_id : k \in DOMAIN Accounts(c)} = InputAccounts
       /\ \A k \in DOMAIN Accounts(c) : Accounts(c)[k].suspicion_score = 450

FirstIndex(s, x) == CHOOSE i \in DOMAIN s : s[i] = x /\ \A j \in 1..(i - 1) : s[j] # x

\* 1 for a cycle tag, 2 for a fan tag, 3 for shell_network
TagClass(tag) ==
  IF tag \in {"cycle_length_3", "cycle_length_4", "cycle_length_5"} THEN 1
  ELSE IF tag \in FanTags THEN 2 ELSE 3

\* C18: in every entry of suspicious_accounts, detected_patterns holds each
\* tag of the node once, in the order the tags were first appended (cycle
\* tags, then fan tags, then shell_network), and ring_id is the first of the
\* node's ringIds, null only when there is none.
C18_PatternsAndRingId ==
  \A c \in Calls :
     Finished(c) =>
       \A k \in DOMAIN Accounts(c) :
          LET entry == Accounts(c)[k]
              node == graph[c].nodes[entry.account_id]
              tags == entry.detected_patterns
          IN /\ NoDupSeq(tags)
             /\ Range(tags) = Range(node.detectedPatterns)
             /\ \A i, j \in DOMAIN tags :
                   i < j => /\ FirstIndex(node.detectedPatterns, tags[i])
                                 < FirstIndex(node.detectedPatterns, tags[j])
                            /\ TagClass(tags[i]) <= TagClass(tags[j])
             /\ entry.ring_id = (IF node.ringIds = <<>> THEN NullRingId
                                 ELSE node.ringIds[1])
             /\ (entry.ring_id = NullRingId) = (node.ringIds = <<>>)

C18_Witness ==
  \E c \in Calls :
     /\ Finished(c)
     /\ \E k \in DOMAIN Accounts(c) :
           LET node == graph[c].nodes[Accounts(c)[k].account_id]
           IN /\ {TagClass(tag) : tag \in Range(Accounts(c)[k].detected_patterns)} = {1, 2, 3}
              /\ Len(node.detectedPatterns) > Len(Accounts(c)[k].detected_patterns)
              /\ Len(node.ringIds) > 1

\* C19: a run on the empty transaction sequence passes every stage and
\* returns the empty report: no suspicious accounts, no rings, and the three
\* counts of the summary 0.
C19_EmptyInput ==
  \A c \in Calls :
     (Finished(c) /\ input = <<>>) =>
       /\ progress[c] = <<10, 25, 50, 70, 85, 95, 100>>
       /\ Accounts(c) = <<>>
       /\ Rings(c) = <<>>
       /\ report[c].summary.total_accounts_analyzed = 0
       /\ report[c].summary.suspicious_accounts_flagged = 0
       /\ report[c].summary.fraud_rings_detected = 0

C19_Witness ==
  /\ input = <<>>
  /\ \A c \in Calls : Finished(c)
  /\ \A c \in Calls : graph[c].nodeIds = <<>>

\* C20: when calls of analyzeTransactions overlap and interleave at their
\* awaited ticks, every returned report still numbers its own rings
\* RING_001, RING_002, ... in order, so no id occurs twice in a report.
C20_RunsIndependent ==
  \A c \in Calls :
     Finished(c) =>
       /\ \A i \in DOMAIN Rings(c) : Rings(c)[i].ring_id = DenseId(i)
       /\ \A i, j \in DOMAIN Rings(c) :
             i # j => Rings(c)[i].ring_id # Rings(c)[j].ring_id

ShellDone(c) == Contains(stages[c], "shell")

\* the timestamps of the transactions of the input from a to b
HopTimes(a, b) ==
  {input[i].timestamp : i \in {j \in DOMAIN input :
                                  input[j].sender_id = a /\ input[j].receiver_id = b}}

\* earliest timestamp on v->w minus latest timestamp on u->v
ForwardDelay(u, v, w) ==
  (CHOOSE x \in HopTimes(v, w) : \A y \in HopTimes(v, w) : x <= y)
    - (CHOOSE x \in HopTimes(u, v) : \A y \in HopTimes(u, v) : y <= x)

\* p is a simple directed path of the input over 3 to 6 accounts whose
\* intermediate accounts have total degree 2 or 3 and that holds a
\* consecutive triple forwarded in less than 72 hours
IsShellPath(p) ==
  /\ Len(p) \in 3..6
  /\ \A i \in 2..(Len(p) - 1) : InputDegree(p[i]) \in 2..3
  /\ \E i \in 1..(Len(p) - 2) : ForwardDelay(p[i], p[i + 1], p[i + 2]) < 72 * HourMs

ShellPaths == {p \in UNION {SimplePaths(k) : k \in 3..6} : IsShellPath(p)}

\* C21: every ring detectShellNetworks returns is tagged shell_network and
\* its members are the accounts of a simple directed path of 3 to 6 accounts
\* of the input, whose intermediate accounts all have total degree 2 or 3 and
\* in which some consecutive triple (u, v, w) has the earliest v->w less than
\* 72 hours after the latest u->v (negative delays count, exactly 72 hours
\* does not).
C21_ShellRingsArePaths ==
  \A c \in Calls :
     ShellDone(c) =>
       \A i \in DOMAIN shellRings[c] :
          /\ shellRings[c][i].pattern_type = "shell_network"
          /\ \E p \in ShellPaths : Range(p) = Members(shellRings[c][i])

\* a shell ring over an input whose transactions go back in time, so that
\* every forwarding delay of the ring's path is negative
C21_Witness ==
  \E c \in Calls :
     /\ ShellDone(c)
     /\ shellRings[c] # <<>>
     /\ \A i \in 1..(Len(input) - 1) : input[i + 1].timestamp < input[i].timestamp

\* C22: every simple directed path of 3 to 6 accounts whose intermediate
\* accounts all have total degree 2 or 3 and that holds a triple forwarded in
\* less than 72 hours is detected, whatever the total degree of its first and
\* of its last account: detectShellNetworks returns a ring with its accounts.
C22_EndpointsUnconstrained ==
  \A c \in Calls :
     ShellDone(c) =>
       \A p \in ShellPaths :
          \E i \in DOMAIN shellRings[c] : Members(shellRings[c][i]) = Range(p)

-----------------------------------------------------------------------------
(* Properties of mergeOverlappingRings, continued *)

\* most severe first
SeverityList ==
  <<"shell_network", "cycle_length_5", "cycle_length_4", "cycle_length_3",
    "fan_in_72h", "fan_out_72h">>

\* p is listed and more severe than q
MoreSevere(p, q) ==
  \E i, j \in DOMAIN SeverityList :
     i < j /\ SeverityList[i] = p /\ SeverityList[j] = q

\* the rings that stand for their member set: no ring with the same members
\* is more severe, and none that is as severe comes before
Representatives(rings) ==
  {i \in DOMAIN rings :
     \A j \in DOMAIN rings \ {i} :
        MemberSet(rings[j]) = MemberSet(rings[i]) =>
          /\ ~MoreSevere(rings[j].pattern_type, rings[i].pattern_type)
          /\ (j < i => MoreSevere(rings[i].pattern_type, rings[j].pattern_type))}

\* the representatives whose member set lies in no larger one
SurvivingRings(rings) ==
  {i \in Representatives(rings) :
     ~\E j \in DOMAIN rings :
        MemberSet(rings[i]) \subseteq MemberSet(rings[j])
          /\ MemberSet(rings[i]) # MemberSet(rings[j])}

\* the rings whose accounts went into the merged ring: of the surviving
\* representatives in the union-find function, of all the rings in the greedy one
GroupOf(merged) ==
  {i \in (IF mergeVariant = "unionfind" THEN SurvivingRings(mergeIn)
          ELSE DOMAIN mergeIn) :
     MemberSet(mergeIn[i]) \subseteq MemberSet(merged)}

\* C23: every ring mergeOverlappingRings returns has as members exactly the
\* union of the member sets of the rings of its group, as pattern_type the
\* most severe pattern of the group (rings with the same member set reduced
\* to the most severe one first), and as risk_score the maximum risk_score of
\* the rings of the group.
C23_MergedRingFields ==
  mergePc = "done" =>
    \A k \in DOMAIN mergeOut :
       LET group == GroupOf(mergeOut[k])
       IN /\ group # {}
          /\ MemberSet(mergeOut[k]) = UNION {MemberSet(mergeIn[i]) : i \in group}
          /\ \E i \in group : mergeIn[i].pattern_type = mergeOut[k].pattern_type
          /\ \A i \in group : ~MoreSevere(mergeIn[i].pattern_type, mergeOut[k].pattern_type)
          /\ \E i \in group : mergeIn[i].risk_score = mergeOut[k].risk_score
          /\ \A i \in group : mergeIn[i].risk_score <= mergeOut[k].risk_score

\* a merged ring built from two rings of different members, patterns and
\* risks, after a ring with the members of one of them was reduced away
C23_Witness ==
  /\ mergePc = "done"
  /\ mergeVariant = "unionfind"
  /\ Cardinality(Representatives(mergeIn)) < Len(mergeIn)
  /\ \E k \in DOMAIN mergeOut :
        \E i, j \in GroupOf(mergeOut[k]) :
           /\ MemberSet(mergeIn[i]) # MemberSet(mergeIn[j])
           /\ mergeIn[i].pattern_type # mergeIn[j].pattern_type
           /\ mergeIn[i].risk_score < mergeIn[j].risk_score

-----------------------------------------------------------------------------
(* Properties of the smurfing window *)

\* the distinct counterparties of n in the window position whose last
\* transaction is e: the transactions of n up to e and at most 72 hours
\* before it
WindowAt(n, direction, e) ==
  {Counterparty(j, direction) :
     j \in {k \in DirTxs(n, direction) :
              /\ input[k].timestamp <= input[e].timestamp
              /\ input[e].timestamp - input[k].timestamp <= WINDOW_MS}}

RingDirection(ring) ==
  IF ring.pattern_type \in {"fan_in_72h", "fan_in_smurfing"} THEN "incoming"
  ELSE "outgoing"

\* C24: every ring detectSmurfing emits consists of an aggregator n and the
\* distinct counterparties W of one window position of n in the ring's
\* direction, W is as large as the counterparty set of any window position
\* of n (not only the first that reaches 10), and the ring's risk_score is
\* min(100, 60 + 2 * |W|).
C24_LargestWindow ==
  \A c \in Calls :
     SmurfingDone(c) =>
       \A i \in DOMAIN smurfRings[c] :
          LET ring == smurfRings[c][i]
              direction == RingDirection(ring)
          IN \E n \in Members(ring) : \E e \in DirTxs(n, direction) :
                LET W == WindowAt(n, direction, e)
                IN /\ Members(ring) = {n} \cup W
                   /\ \A f \in DirTxs(n, direction) :
                         Cardinality(WindowAt(n, direction, f)) <= Cardinality(W)
                   /\ ring.risk_score = 10 * Min2(100, 60 + 2 * Cardinality(W))

-----------------------------------------------------------------------------
(* The graph after construction *)

\* what the constructor builds and no later stage may touch: a node without
\* its analysis fields
NodeAggregates(node) ==
  [inDegree |-> node.inDegree, outDegree |-> node.outDegree,
   totalIn |-> node.totalIn, totalOut |-> node.totalOut,
   transactions |-> node.transactions]

Topology(g) ==
  [nodeIds |-> g.nodeIds,
   nodes |-> [id \in DOMAIN g.nodes |-> NodeAggregates(g.nodes[id])],
   edgeKeys |-> g.edgeKeys,
   edges |-> g.edges,
   adjacency |-> g.adjacency,
   reverseAdjacency |-> g.reverseAdjacency]

Built(c) == Contains(stages[c], "build")

\* C25: once the graph of a call is built, no step of the call (detectCycles,
\* detectSmurfing, detectShellNetworks, scoring, building the report) changes
\* its node set, edge set, forward or reverse adjacency, any node's inDegree,
\* outDegree, totalIn, totalOut or any node or edge transaction list; steps
\* write only isSuspicious, suspicionScore, detectedPatterns and ringIds.
C25_TopologyFrozen ==
  [][\A c \in Calls : Built(c) => Topology(graph'[c]) = Topology(graph[c])]_vars

\* a finished call whose detectors and scoring wrote to the nodes of a graph
\* that still is the graph the constructor built
C25_Witness ==
  \E c \in Calls :
     /\ Finished(c)
     /\ Topology(graph[c]) = Topology(BuildGraph(input))
     /\ \E id \in DOMAIN graph[c].nodes :
           /\ graph[c].nodes[id].isSuspicious
           /\ graph[c].nodes[id].suspicionScore > 0
           /\ graph[c].nodes[id].ringIds # <<>>

-----------------------------------------------------------------------------
(* The graph the constructor builds *)

\* the positions of the input whose transaction account id sends / receives
SentBy(id) == {i \in DOMAIN input : input[i].sender_id = id}
ReceivedBy(id) == {i \in DOMAIN input : input[i].receiver_id = id}

RECURSIVE SumOver(_, _)
SumOver(f, S) ==
  IF S = {} THEN 0
  ELSE LET x == CHOOSE x \in S : TRUE IN f[x] + SumOver(f, S \ {x})

\* the transactions of the input at the positions S, in input order
RECURSIVE InOrder(_, _)
InOrder(S, i) ==
  IF i > Len(input) THEN <<>>
  ELSE (IF i \in S THEN <<input[i]>> ELSE <<>>) \o InOrder(S, i + 1)

\* what build pushes on the list of node id: each transaction once as its
\* sender and once as its receiver
RECURSIVE NodeList(_, _)
NodeList(id, i) ==
  IF i > Len(input) THEN <<>>
  ELSE (IF input[i].sender_id = id THEN <<input[i]>> ELSE <<>>)
       \o (IF input[i].receiver_id = id THEN <<input[i]>> ELSE <<>>)
       \o NodeList(id, i + 1)

InputPairs == {<<input[i].sender_id, input[i].receiver_id>> : i \in DOMAIN input}

\* the edges of g with source s and target r
EdgesBetween(g, s, r) ==
  {k \in DOMAIN g.edges : g.edges[k].source = s /\ g.edges[k].target = r}

\* C26: in the graph built from a transaction sequence of length T, every
\* node's outDegree and inDegree count the transactions it sends and
\* receives, both degree sums over the nodes are T, every node's transaction
\* list has inDegree + outDegree entries in input order, and every ordered
\* pair (s, r) with a transaction has exactly one edge with source s and
\* target r, whose count and transaction list are the transactions from s to
\* r in input order.
C26_GraphBuild ==
  \A c \in Calls :
     Built(c) =>
       LET g == graph[c]
           ids == DOMAIN g.nodes
       IN /\ ids = InputAccounts
          /\ \A id \in ids :
                /\ g.nodes[id].outDegree = Cardinality(SentBy(id))
                /\ g.nodes[id].inDegree = Cardinality(ReceivedBy(id))
                /\ Len(g.nodes[id].transactions)
                     = g.nodes[id].inDegree + g.nodes[id].outDegree
                /\ g.nodes[id].transactions = NodeList(id, 1)
          /\ SumOver([id \in ids |-> g.nodes[id].inDegree], ids) = Len(input)
          /\ SumOver([id \in ids |-> g.nodes[id].outDegree], ids) = Len(input)
          /\ \A pair \in InputPairs :
                LET between == {i \in DOMAIN input :
                                  /\ input[i].sender_id = pair[1]
                                  /\ input[i].receiver_id = pair[2]}
                IN /\ Cardinality(EdgesBetween(g, pair[1], pair[2])) = 1
                   /\ \A k \in EdgesBetween(g, pair[1], pair[2]) :
                         /\ g.edges[k].count = Cardinality(between)
                         /\ g.edges[k].transactions = InOrder(between, 1)

-----------------------------------------------------------------------------
(* The progress callback *)

\* the percents reported so far are integers of 0..100, each above the one
\* before, one per stage begun or about to begin, and a returned report has
\* 100 as the last of them
ProgressInOrder(c) ==
  /\ \A k \in DOMAIN progress[c] : progress[c][k] \in 0..100
  /\ \A k \in 1..(Len(progress[c]) - 1) : progress[c][k] < progress[c][k + 1]
  /\ pc[c] \notin {"idle", "done"} => Len(progress[c]) = Len(stages[c]) + 1
  /\ pc[c] = "idle" => progress[c] = <<>> /\ stages[c] = <<>>
  /\ (pc[c] = "done" \/ report[c] # NoReport) =>
        /\ progress[c] # <<>>
        /\ progress[c][Len(progress[c])] = 100
        /\ Len(progress[c]) = Len(stages[c]) + 1

\* a step that does the work of a stage finds the call for that stage made
CalledBeforeStage(c) ==
  stages'[c] # stages[c] =>
    /\ Len(stages'[c]) = Len(stages[c]) + 1
    /\ Len(progress[c]) = Len(stages'[c])
    /\ Len(progress'[c]) = Len(progress[c]) + 1

\* C27: in one run of analyzeTransactions the progress callback is called
\* once before each stage, with integer percents of 0..100 that strictly
\* increase; the last call reports 100 and is made before the report is
\* returned, and no stage does its work before its call was made.
C27_Progress ==
  /\ [](\A c \in Calls : ProgressInOrder(c))
  /\ [][\A c \in Calls : CalledBeforeStage(c)]_vars

\* a finished run over an input with rings: seven calls, six stages
C27_Witness ==
  \E c \in Calls :
     /\ Finished(c)
     /\ report[c] # NoReport
     /\ progress[c] = <<10, 25, 50, 70, 85, 95, 100>>
     /\ Len(stages[c]) = 6
     /\ cycleRings[c] # <<>>

-----------------------------------------------------------------------------
(* Termination *)

-----------------------------------------------------------------------------
(* Accounts through mergeOverlappingRings *)

AccountsOf(rings) == UNION {MemberSet(rings[i]) : i \in DOMAIN rings}

\* C29: mergeOverlappingRings neither loses nor invents an account: for a
\* non-empty list of rings the accounts of the returned rings are the
\* accounts of the given rings and at least one ring is returned; the call
\* leaves the rings it was given, and their member lists, as they were.
C29_AccountsPreserved ==
  /\ [](mergePc = "done" /\ mergeIn # <<>> =>
          /\ AccountsOf(mergeOut) = AccountsOf(mergeIn)
          /\ mergeOut # <<>>)
  /\ [][mergePc' = "done" => mergeIn' = mergeIn]_vars

\* three rings of which one is a duplicate or a subset of another and two
\* overlap without containing each other, returned as fewer rings
C29_Witness ==
  /\ mergePc = "done"
  /\ Len(mergeIn) = 3
  /\ Len(mergeOut) < Len(mergeIn)
  /\ \E i, j \in DOMAIN mergeIn :
        i # j /\ MemberSet(mergeIn[i]) \subseteq MemberSet(mergeIn[j])
  /\ \E i, j \in DOMAIN mergeIn :
        /\ MemberSet(mergeIn[i]) \cap MemberSet(mergeIn[j]) # {}
        /\ ~(MemberSet(mergeIn[i]) \subseteq MemberSet(mergeIn[j]))
        /\ ~(MemberSet(mergeIn[j]) \subseteq MemberSet(mergeIn[i]))

-----------------------------------------------------------------------------
(* The suspicious flag *)

\* the rings the detectors of call c have emitted so far
Emitted(c) == cycleRings[c] \o smurfRings[c] \o shellRings[c]

\* C30: once a detector has run, a node is flagged suspicious exactly when
\* some emitted ring contains it, and exactly when its ringIds and its
\* detectedPatterns are non-empty; every entry of suspicious_accounts then
\* has a ring_id that is not null and a non-empty detected_patterns, and
\* every node that is not flagged has suspicionScore 0.
C30_SuspiciousIffInRing ==
  \A c \in Calls :
     CyclesDone(c) =>
       /\ \A id \in DOMAIN graph[c].nodes :
             LET node == graph[c].nodes[id]
                 inRing == \E i \in DOMAIN Emitted(c) : id \in Members(Emitted(c)[i])
             IN /\ node.isSuspicious <=> inRing
                /\ node.isSuspicious <=> node.ringIds # <<>>
                /\ node.isSuspicious <=> node.detectedPatterns # <<>>
                /\ ~node.isSuspicious => node.suspicionScore = 0
       /\ Finished(c) =>
             \A k \in DOMAIN Accounts(c) :
                /\ Accounts(c)[k].ring_id # NullRingId
                /\ Accounts(c)[k].ring_id \in
                     {Emitted(c)[i].ring_id : i \in DOMAIN Emitted(c)}
                /\ Accounts(c)[k].detected_patterns # <<>>

\* a finished call with flagged and unflagged nodes, the flagged ones listed
C30_Witness ==
  \E c \in Calls :
     /\ Finished(c)
     /\ Accounts(c) # <<>>
     /\ \E id \in DOMAIN graph[c].nodes : ~graph[c].nodes[id].isSuspicious
     /\ \E id \in DOMAIN graph[c].nodes :
           /\ graph[c].nodes[id].isSuspicious
           /\ graph[c].nodes[id].suspicionScore > 0
====
